---- MODULE Spec2Model ----
(***************************************************************************)
(* A model of the Oberon-subset compiler: the tree-walking evaluator       *)
(* (interpreter.py), the semantic analyzer (semantic_analyzer.py) and the  *)
(* command-line driver (compiler.py, oberon.py, oberon_exe.py).            *)
(*                                                                         *)
(* Python objects are modelled by what the code can observe of them:       *)
(*   - a Python value (int, float, str, list) is a record PyVal with a     *)
(*     kind k; a float is an exact rational n/d (the inputs keep every     *)
(*     real dyadic, where binary floating point is exact); a list is a     *)
(*     reference n into the heap of list objects `lists`, because lists    *)
(*     are mutated in place and shared by reference;                       *)
(*   - RuntimeValue objects are never mutated after construction, so they  *)
(*     are records held by value;                                          *)
(*   - Symbol objects are mutated (runtime_value is assigned), so they     *)
(*     live in the heap `syms` and a Scope maps names to heap indices.     *)
(***************************************************************************)
EXTENDS Integers, Sequences, FiniteSets, TLC

VARIABLES
    entry,          \* the entry point this run came in by: "interpret", "analyze", "main"
    program,        \* the Program handed to Interpreter.interpret / analyze
    pc,             \* position of the evaluator: "idle", "run", "done", "error"
    scopes,         \* heap of Scope objects of the evaluator
    syms,           \* heap of Symbol objects of the evaluator
    lists,          \* heap of Python list objects (array contents)
    current_scope,  \* Interpreter.current_scope (index into scopes)
    procedures,     \* Interpreter.procedures (sequence of declarations, last wins)
    output,         \* Interpreter.output
    stack,          \* the evaluator's pending work (the Python call stack)
    exc,            \* the exception that left interpret(), if any
    log,            \* observation of the evaluator's steps, for stating properties of a run
    analysis,       \* the SemanticAnalyzer after analyze(): errors, scopes, procedures
    drv,            \* position of the driver
    env,            \* the driver's environment and the outcomes of lexing and parsing
    messages,       \* the message list compile_source returned
    exe_path,       \* the executable path compile_source returned ("" if none)
    exit_status,    \* status the process exited with (-1 while running)
    trail,          \* stages the driver invoked, in order
    lexer,          \* the Lexer object: source, position, line, column, tokens
    emitter,        \* the LLVMEmitter object: lines, globals, counters, locals
    machine,        \* the process that runs the emitted IR: registers, memory, printed
    runs,           \* what the earlier compile_source calls of this process returned
    gui             \* the OberonGUI object, its worker threads and Tk's pending callbacks

vars == <<entry, program, pc, scopes, syms, lists, current_scope, procedures, output,
          stack, exc, log, analysis, drv, env, messages, exe_path, exit_status, trail,
          lexer, emitter, machine, runs, gui>>

evalVars == <<pc, scopes, syms, lists, current_scope, procedures, output, stack, exc, log>>
drvVars == <<analysis, drv, env, messages, exe_path, exit_status, trail>>
\* the objects that the evaluator and the driver do not touch
emitVars == <<emitter, machine>>
otherVars == <<lexer, emitVars, runs, gui>>

(***************************************************************************)
(* Bounds of the model.                                                    *)
(***************************************************************************)
MaxForBound == 3      \* FOR bounds are drawn from -1 .. MaxForBound
MaxArraySize == 2     \* declared array sizes are drawn from 1 .. MaxArraySize

(***************************************************************************)
(* Generic helpers.                                                        *)
(***************************************************************************)
Abs(x) == IF x < 0 THEN -x ELSE x

RECURSIVE Gcd(_, _)
Gcd(a, b) == IF b = 0 THEN a ELSE Gcd(b, a % b)

Max(a, b) == IF a > b THEN a ELSE b

Range(a, b) == [j \in 1 .. Max(0, b - a + 1) |-> a + j - 1]

Last(s) == s[Len(s)]
Front(s) == SubSeq(s, 1, Len(s) - 1)

(***************************************************************************)
(* Python values.                                                          *)
(***************************************************************************)
PyInt(n) == [k |-> "int", n |-> n, d |-> 1, s |-> ""]
PyStr(s) == [k |-> "str", n |-> 0, d |-> 1, s |-> s]
PyList(ref) == [k |-> "list", n |-> ref, d |-> 1, s |-> ""]
PyFloat(n, d) ==
    LET g == Gcd(Abs(n), Abs(d))
        sg == IF d < 0 THEN -1 ELSE 1
    IN [k |-> "float", n |-> (sg * n) \div g, d |-> (sg * d) \div g, s |-> ""]

IsNumber(v) == v.k \in {"int", "float"}

\* bool(v): the truth value Python gives a value in `if v` / `v and w`
Truthy(v, L) ==
    CASE v.k = "int" -> v.n # 0
      [] v.k = "float" -> v.n # 0
      [] v.k = "str" -> v.s # ""
      [] OTHER -> Len(L[v.n]) > 0

\* int(v) of a number: truncation toward zero
TruncInt(v) == IF v.n >= 0 THEN v.n \div v.d ELSE -((-v.n) \div v.d)

\* str(int): the decimal form, with a leading "-" for negatives
StrInt(n) == ToString(n)

\* str(float) of a dyadic rational with at most three fractional binary digits
FracDigits(r, d) ==
    \* r/d with 0 <= r < d and d in {1,2,4,8}: the exact decimal expansion
    CASE d = 1 -> "0"
      [] d = 2 -> "5"
      [] d = 4 -> IF r = 1 THEN "25" ELSE "75"
      [] d = 8 -> CASE r = 1 -> "125" [] r = 3 -> "375" [] r = 5 -> "625" [] OTHER -> "875"
      [] OTHER -> "?"

StrFloat(v) ==
    LET a == Abs(v.n)
        whole == a \div v.d
        r == a % v.d
    IN (IF v.n < 0 THEN "-" ELSE "") \o ToString(whole) \o "." \o FracDigits(r, v.d)

(***************************************************************************)
(* ast.py: the nodes of the tree.                                          *)
(***************************************************************************)
Literal(value, type) == [node |-> "Literal", value |-> value, type |-> type]
IntLit(n) == Literal(PyInt(n), "INTEGER")
StrLit(s) == Literal(PyStr(s), "STRING")
RealLit(n, d) == Literal(PyFloat(n, d), "REAL")
Variable(name) == [node |-> "Variable", name |-> name]
\* ArrayAccess.__init__: index is indices[0] when there is exactly one index
ArrayAccess(name, indices) ==
    [node |-> "ArrayAccess", name |-> name, indices |-> indices,
     has_index |-> Len(indices) = 1]
FunctionCall(name, arguments) == [node |-> "FunctionCall", name |-> name, arguments |-> arguments]
BinaryExpression(left, operator, right) ==
    [node |-> "BinaryExpression", left |-> left, operator |-> operator, right |-> right]
UnaryExpression(operator, operand) ==
    [node |-> "UnaryExpression", operator |-> operator, operand |-> operand]

\* an assignment target is a str (a plain name) or an ArrayAccess
Name(name) == [node |-> "str", name |-> name]
Assignment(variable, expression) ==
    [node |-> "Assignment", variable |-> variable, expression |-> expression]
ProcedureCall(name, arguments) == [node |-> "ProcedureCall", name |-> name, arguments |-> arguments]
IfStatement(condition, then_statement, else_statement) ==
    [node |-> "IfStatement", condition |-> condition,
     then_statement |-> then_statement, else_statement |-> else_statement]
WhileStatement(condition, statement) ==
    [node |-> "WhileStatement", condition |-> condition, statement |-> statement]
ForStatement(variable, start, end, statement) ==
    [node |-> "ForStatement", variable |-> variable, start |-> start, end |-> end,
     statement |-> statement]
CompoundStatement(statements) == [node |-> "CompoundStatement", statements |-> statements]
\* the absent else branch (None): a one-element or empty sequence stands for Optional
NoElse == <<>>

ConstDeclaration(name, value) == [node |-> "ConstDeclaration", name |-> name, value |-> value]
\* VarDeclaration.__init__: array_size is array_dimensions[0] when there is exactly
\* one dimension, None otherwise (has_array_size FALSE)
VarDeclaration(name, type, array_dimensions) ==
    [node |-> "VarDeclaration", name |-> name, type |-> type,
     array_dimensions |-> array_dimensions,
     has_array_size |-> Len(array_dimensions) = 1,
     array_size |-> IF Len(array_dimensions) = 1 THEN array_dimensions[1] ELSE 0]
Parameter(name, type, is_reference) ==
    [node |-> "Parameter", name |-> name, type |-> type, is_reference |-> is_reference]
\* return_type "" is None
ProcedureDeclaration(name, parameters, return_type, declarations, statements) ==
    [node |-> "ProcedureDeclaration", name |-> name, parameters |-> parameters,
     return_type |-> return_type, declarations |-> declarations, statements |-> statements]
Program(name, declarations, statements) ==
    [node |-> "Program", name |-> name, declarations |-> declarations, statements |-> statements]

(***************************************************************************)
(* semantic_analyzer.py: Symbol and Scope, as the evaluator uses them.     *)
(* A state of the object graph is a record st with the heaps scopes and    *)
(* syms, the list heap lists, the current scope cur and the procedure      *)
(* table procedures.                                                       *)
(***************************************************************************)
RuntimeValue(value, type) == [value |-> value, type |-> type]
NoValue == RuntimeValue(PyInt(0), "")

\* Symbol.__init__; has_runtime_value is hasattr(symbol, 'runtime_value')
Symbol(name, type, is_constant) ==
    [name |-> name, type |-> type, is_constant |-> is_constant,
     has_runtime_value |-> FALSE, runtime_value |-> NoValue]

\* Scope.__init__: an insertion-ordered dict of symbols and a parent (0 is None)
Scope(parent) == [symbols |-> <<>>, parent |-> parent]

InScope(scope, name) == \E j \in 1 .. Len(scope.symbols) : scope.symbols[j].name = name
SymbolIn(scope, name) ==
    scope.symbols[CHOOSE j \in 1 .. Len(scope.symbols) : scope.symbols[j].name = name].sym

\* Scope.lookup: the heap index of the symbol, 0 for None
RECURSIVE lookup(_, _, _)
lookup(S, sc, name) ==
    IF InScope(S[sc], name) THEN SymbolIn(S[sc], name)
    ELSE IF S[sc].parent # 0 THEN lookup(S, S[sc].parent, name)
    ELSE 0

\* An exception raised by the evaluator: its Python class and message
Raise(st, class, msg) == [st EXCEPT !.exc = [class |-> class, msg |-> msg]]
NoExc == [class |-> "", msg |-> ""]
Raised(st) == st.exc.class # ""

\* Scope.define on the current scope of st
define(st, symbol) ==
    IF InScope(st.scopes[st.cur], symbol.name)
    THEN Raise(st, "NameError", "Symbol '" \o symbol.name \o "' already defined in this scope")
    ELSE LET id == Len(st.syms) + 1
         IN [st EXCEPT !.syms = Append(@, symbol),
                       !.scopes[st.cur].symbols = Append(@, [name |-> symbol.name, sym |-> id])]

\* Interpreter.get_variable: st with the value in st.val, or with an exception
get_variable(st, name) ==
    LET symbol == lookup(st.scopes, st.cur, name)
    IN IF symbol = 0 THEN Raise(st, "NameError", "Variable '" \o name \o "' not defined")
       ELSE IF ~st.syms[symbol].has_runtime_value
       THEN Raise(st, "RuntimeError", "Variable '" \o name \o "' not initialized")
       ELSE [st EXCEPT !.val = st.syms[symbol].runtime_value]

\* Interpreter.set_variable
set_variable(st, name, value) ==
    LET symbol == lookup(st.scopes, st.cur, name)
    IN IF symbol = 0 THEN Raise(st, "NameError", "Variable '" \o name \o "' not defined")
       ELSE IF st.syms[symbol].is_constant
       THEN Raise(st, "RuntimeError", "Cannot assign to constant '" \o name \o "'")
       ELSE [st EXCEPT !.syms[symbol].has_runtime_value = TRUE,
                       !.syms[symbol].runtime_value = value]

\* self.procedures[name]: the last declaration stored under the name
InProcedures(P, name) == \E j \in 1 .. Len(P) : P[j].name = name
ProcedureOf(P, name) ==
    P[CHOOSE j \in 1 .. Len(P) : P[j].name = name /\ \A h \in (j + 1) .. Len(P) : P[h].name # name]

(***************************************************************************)
(* Python's built-in conversions and operators on values.                  *)
(***************************************************************************)
\* repr of a list element; a list inside a list prints as [...] only when it is
\* the list itself, which is the one nesting the inputs can build
ElemRepr(v) ==
    CASE v.k = "int" -> StrInt(v.n)
      [] v.k = "float" -> StrFloat(v)
      [] v.k = "str" -> "'" \o v.s \o "'"
      [] OTHER -> "[...]"

RECURSIVE JoinRepr(_, _)
JoinRepr(xs, j) ==
    IF j > Len(xs) THEN ""
    ELSE ElemRepr(xs[j]) \o (IF j < Len(xs) THEN ", " ELSE "") \o JoinRepr(xs, j + 1)

\* str(value)
Str(v, L) ==
    CASE v.k = "int" -> StrInt(v.n)
      [] v.k = "float" -> StrFloat(v)
      [] v.k = "str" -> v.s
      [] OTHER -> "[" \o JoinRepr(L[v.n], 1) \o "]"

\* a // b and a % b of Python ints, b # 0: floor division, remainder with b's sign
FloorDiv(a, b) ==
    LET q == Abs(a) \div Abs(b)
        exact == Abs(a) % Abs(b) = 0
    IN IF (a >= 0) = (b > 0) THEN q ELSE IF exact THEN -q ELSE -q - 1
FloorMod(a, b) == a - b * FloorDiv(a, b)

\* the result of a built-in: a value, or the class and message of the exception
Ok(v) == [class |-> "", msg |-> "", v |-> v]
Err(class, msg) == [class |-> class, msg |-> msg, v |-> PyInt(0)]

\* int(v) and float(v); the strings of the inputs are never numerals
ToInt(v) ==
    CASE v.k = "int" -> Ok(v)
      [] v.k = "float" -> Ok(PyInt(TruncInt(v)))
      [] v.k = "str" -> Err("ValueError", "invalid literal for int() with base 10: '" \o v.s \o "'")
      [] OTHER -> Err("TypeError", "int() argument must be a string, a bytes-like object or a real number, not 'list'")
ToFloat(v) ==
    CASE v.k = "int" -> Ok(PyFloat(v.n, 1))
      [] v.k = "float" -> Ok(v)
      [] v.k = "str" -> Err("ValueError", "could not convert string to float: '" \o v.s \o "'")
      [] OTHER -> Err("TypeError", "float() argument must be a string or a real number, not 'list'")

\* f(conv(l), conv(r)) with the exceptions of the conversions, left first
Lift2(cl, cr, f(_, _)) ==
    IF cl.class # "" THEN cl ELSE IF cr.class # "" THEN cr ELSE f(cl.v, cr.v)

FAdd(a, b) == Ok(PyFloat(a.n * b.d + b.n * a.d, a.d * b.d))
FSub(a, b) == Ok(PyFloat(a.n * b.d - b.n * a.d, a.d * b.d))
FMul(a, b) == Ok(PyFloat(a.n * b.n, a.d * b.d))
FDiv(a, b) ==
    IF b.n = 0 THEN Err("ZeroDivisionError", "float division by zero")
    ELSE Ok(PyFloat(a.n * b.d, a.d * b.n))
IAdd(a, b) == Ok(PyInt(a.n + b.n))
ISub(a, b) == Ok(PyInt(a.n - b.n))
IMul(a, b) == Ok(PyInt(a.n * b.n))
IDiv(a, b) ==
    IF b.n = 0 THEN Err("ZeroDivisionError", "integer division or modulo by zero")
    ELSE Ok(PyInt(FloorDiv(a.n, b.n)))
IMod(a, b) ==
    IF b.n = 0 THEN Err("ZeroDivisionError", "integer modulo by zero")
    ELSE Ok(PyInt(FloorMod(a.n, b.n)))

\* a == b
PyEq(a, b, L) ==
    CASE IsNumber(a) /\ IsNumber(b) -> a.n * b.d = b.n * a.d
      [] a.k = "str" /\ b.k = "str" -> a.s = b.s
      [] a.k = "list" /\ b.k = "list" -> a.n = b.n \/ L[a.n] = L[b.n]
      [] OTHER -> FALSE

\* the name type(v).__name__ gives
TypeName(v) == v.k

\* a op b for op in <, <=, >, >=: numbers compare by value; a number against a
\* str or a list is a TypeError; the order of two strings or of two lists is
\* outside the model
Compare(a, b, op) ==
    LET x == a.n * b.d
        y == b.n * a.d
    IN CASE IsNumber(a) /\ IsNumber(b) ->
              Ok(PyInt(IF CASE op = "<" -> x < y [] op = "<=" -> x <= y
                             [] op = ">" -> x > y [] OTHER -> x >= y
                       THEN 1 ELSE 0))
         [] ~IsNumber(a) /\ a.k = b.k -> Err("Unmodelled", "ordering of two " \o a.k)
         [] OTHER -> Err("TypeError", "'" \o op \o "' not supported between instances of '"
                                       \o TypeName(a) \o "' and '" \o TypeName(b) \o "'")
Bool(b) == PyInt(IF b THEN 1 ELSE 0)

\* the result of a RuntimeValue-producing built-in with its type tag
Tagged(r, type) == [class |-> r.class, msg |-> r.msg, v |-> RuntimeValue(r.v, type)]

\* Interpreter.evaluate_binary_operation
evaluate_binary_operation(left, operator, right, L) ==
    LET l == left.value
        r == right.value
        anyStr == left.type = "STRING" \/ right.type = "STRING"
        anyReal == left.type = "REAL" \/ right.type = "REAL"
    IN CASE operator = "+" ->
              IF anyStr THEN Tagged(Ok(PyStr(Str(l, L) \o Str(r, L))), "STRING")
              ELSE IF anyReal THEN Tagged(Lift2(ToFloat(l), ToFloat(r), FAdd), "REAL")
              ELSE Tagged(Lift2(ToInt(l), ToInt(r), IAdd), "INTEGER")
         [] operator = "-" ->
              IF anyReal THEN Tagged(Lift2(ToFloat(l), ToFloat(r), FSub), "REAL")
              ELSE Tagged(Lift2(ToInt(l), ToInt(r), ISub), "INTEGER")
         [] operator = "*" ->
              IF anyReal THEN Tagged(Lift2(ToFloat(l), ToFloat(r), FMul), "REAL")
              ELSE Tagged(Lift2(ToInt(l), ToInt(r), IMul), "INTEGER")
         [] operator = "/" -> Tagged(Lift2(ToFloat(l), ToFloat(r), FDiv), "REAL")
         [] operator = "DIV" -> Tagged(Lift2(ToInt(l), ToInt(r), IDiv), "INTEGER")
         [] operator = "MOD" -> Tagged(Lift2(ToInt(l), ToInt(r), IMod), "INTEGER")
         [] operator = "=" -> Tagged(Ok(Bool(PyEq(l, r, L))), "INTEGER")
         [] operator = "#" -> Tagged(Ok(Bool(~PyEq(l, r, L))), "INTEGER")
         [] operator \in {"<", "<=", ">", ">="} -> Tagged(Compare(l, r, operator), "INTEGER")
         [] operator = "AND" -> Tagged(Ok(Bool(Truthy(l, L) /\ Truthy(r, L))), "INTEGER")
         [] operator = "OR" -> Tagged(Ok(Bool(Truthy(l, L) \/ Truthy(r, L))), "INTEGER")
         [] OTHER -> Tagged(Err("TypeError", "Unknown binary operator: " \o operator), "")

FNeg(a) == Ok(PyFloat(-a.n, a.d))
INeg(a) == Ok(PyInt(-a.n))
Lift1(c, f(_)) == IF c.class # "" THEN c ELSE f(c.v)

\* Interpreter.evaluate_unary_operation
evaluate_unary_operation(operator, operand) ==
    CASE operator = "+" -> [class |-> "", msg |-> "", v |-> operand]
      [] operator = "-" ->
           IF operand.type = "REAL" THEN Tagged(Lift1(ToFloat(operand.value), FNeg), "REAL")
           ELSE Tagged(Lift1(ToInt(operand.value), INeg), "INTEGER")
      [] OTHER -> Tagged(Err("TypeError", "Unknown unary operator: " \o operator), "")

(***************************************************************************)
(* interpreter.py: expressions.  An evaluation takes a state st of the     *)
(* object graph and gives st with the value in st.val, or st as it was     *)
(* when the exception was raised, with the exception in st.exc.            *)
(***************************************************************************)
\* lift the result of a built-in into the state
Return(st, r) == IF r.class # "" THEN Raise(st, r.class, r.msg) ELSE [st EXCEPT !.val = r.v]

\* CheckIndex refusing index 0
CheckIndex_from_one(st, name, array, index) ==
    IF index.value.k # "int" THEN Raise(st, "TypeError", "Array index must be integer")
    ELSE IF array.value.k # "list" THEN Raise(st, "TypeError", "'" \o name \o "' is not an array")
    ELSE IF index.value.n <= 0 \/ index.value.n >= Len(st.lists[array.value.n])
    THEN Raise(st, "IndexError", "Array index " \o StrInt(index.value.n) \o " out of bounds")
    ELSE st

\* lines 183-192 and 343-350: the checks on an array access, then the element's place
CheckIndex(st, name, array, index) ==
    IF index.value.k # "int" THEN Raise(st, "TypeError", "Array index must be integer")
    ELSE IF array.value.k # "list" THEN Raise(st, "TypeError", "'" \o name \o "' is not an array")
    ELSE IF index.value.n < 0 \/ index.value.n >= Len(st.lists[array.value.n])
    THEN Raise(st, "IndexError", "Array index " \o StrInt(index.value.n) \o " out of bounds")
    ELSE st

\* the first top-level `result := e` of a function body, 0 if there is none
ResultStatement(statements) ==
    LET hits == {j \in 1 .. Len(statements) :
                    /\ statements[j].node = "Assignment"
                    /\ statements[j].variable.node = "str"
                    /\ statements[j].variable.name = "result"}
    IN IF hits = {} THEN 0 ELSE CHOOSE j \in hits : \A h \in hits : j <= h

RECURSIVE evaluate_expression(_, _)
RECURSIVE bind_parameters(_, _, _, _)
RECURSIVE bind_parameters_shared(_, _, _, _)

\* bind_parameters with the parameter bound to the symbol of the argument
\* variable itself instead of to a new symbol
bind_parameters_shared(st, arguments, parameters, j) ==
    IF j > Len(arguments) \/ j > Len(parameters) THEN st
    ELSE LET s1 == evaluate_expression(st, arguments[j])
             cell == IF arguments[j].node = "Variable"
                     THEN lookup(st.scopes, st.cur, arguments[j].name) ELSE 0
             s2 == IF cell # 0
                   THEN [s1 EXCEPT !.scopes[st.cur].symbols =
                                      Append(@, [name |-> parameters[j].name, sym |-> cell])]
                   ELSE define(s1, Symbol(parameters[j].name, parameters[j].type, FALSE))
             s3 == set_variable(s2, parameters[j].name, s1.val)
         IN IF Raised(s1) THEN s1
            ELSE IF Raised(s2) THEN s2
            ELSE IF Raised(s3) THEN s3
            ELSE bind_parameters_shared(s3, arguments, parameters, j + 1)

\* lines 119-123 and 205-209: for (arg, param) in zip(arguments, parameters),
\* evaluated in the new scope, which is already current
bind_parameters(st, arguments, parameters, j) ==
    IF j > Len(arguments) \/ j > Len(parameters) THEN st
    ELSE LET s1 == evaluate_expression(st, arguments[j])
             s2 == define(s1, Symbol(parameters[j].name, parameters[j].type, FALSE))
             s3 == set_variable(s2, parameters[j].name, s1.val)
         IN IF Raised(s1) THEN s1
            ELSE IF Raised(s2) THEN s2
            ELSE IF Raised(s3) THEN s3
            ELSE bind_parameters(s3, arguments, parameters, j + 1)

\* Scope(old_scope) made current: lines 115-116 and 201-202
push_scope(st) ==
    [st EXCEPT !.scopes = Append(@, Scope(st.cur)), !.cur = Len(st.scopes) + 1]

\* AND and OR that leave the right operand alone when the left one decides
evaluate_binary_expression_lazy(st, expression) ==
    LET s1 == evaluate_expression(st, expression.left)
        s2 == evaluate_expression(s1, expression.right)
    IN IF Raised(s1) THEN s1
       ELSE IF expression.operator = "AND" /\ ~Truthy(s1.val.value, st.lists)
       THEN [s1 EXCEPT !.val = RuntimeValue(PyInt(0), "INTEGER")]
       ELSE IF expression.operator = "OR" /\ Truthy(s1.val.value, st.lists)
       THEN [s1 EXCEPT !.val = RuntimeValue(PyInt(1), "INTEGER")]
       ELSE IF Raised(s2) THEN s2
       ELSE Return(s2, evaluate_binary_operation(s1.val, expression.operator, s2.val, st.lists))

\* lines 230-234: the left operand, then the right one, then the operation
evaluate_binary_expression(st, expression) ==
    LET s1 == evaluate_expression(st, expression.left)
        s2 == evaluate_expression(s1, expression.right)
    IN IF Raised(s1) THEN s1
       ELSE IF Raised(s2) THEN s2
       ELSE Return(s2, evaluate_binary_operation(s1.val, expression.operator, s2.val, st.lists))

\* Interpreter.evaluate_expression
evaluate_expression(st, expression) ==
    CASE expression.node = "Literal" ->
           [st EXCEPT !.val = RuntimeValue(expression.value, expression.type)]
      [] expression.node = "Variable" -> get_variable(st, expression.name)
      [] expression.node = "ArrayAccess" ->
           LET s1 == get_variable(st, expression.name)
               s2 == IF expression.has_index
                     THEN evaluate_expression(s1, expression.indices[1])
                     ELSE Raise(s1, "TypeError", "Unknown expression type: <class 'NoneType'>")
               s3 == CheckIndex(s2, expression.name, s1.val, s2.val)
           IN IF Raised(s1) THEN s1
              ELSE IF Raised(s2) THEN s2
              ELSE IF Raised(s3) THEN s3
              ELSE [s3 EXCEPT !.val = RuntimeValue(st.lists[s1.val.value.n][s2.val.value.n + 1],
                                                   s1.val.type)]
      [] expression.node = "FunctionCall" ->
           IF ~InProcedures(st.procedures, expression.name)
           THEN Raise(st, "NameError", "Function '" \o expression.name \o "' not defined")
           ELSE LET procedure == ProcedureOf(st.procedures, expression.name)
                    s1 == bind_parameters(push_scope(st), expression.arguments,
                                          procedure.parameters, 1)
                    r == ResultStatement(procedure.statements)
                    s2 == evaluate_expression(s1, procedure.statements[r].expression)
                IN IF procedure.return_type = ""
                   THEN Raise(st, "TypeError", "'" \o expression.name \o "' is a procedure, not a function")
                   ELSE IF Raised(s1) THEN s1
                   ELSE IF r = 0
                   THEN Raise(st, "RuntimeError", "Function '" \o expression.name \o "' did not return a value")
                   ELSE IF Raised(s2) THEN s2
                   ELSE [st EXCEPT !.val = s2.val]
      [] expression.node = "BinaryExpression" -> evaluate_binary_expression(st, expression)
      [] expression.node = "UnaryExpression" ->
           LET s1 == evaluate_expression(st, expression.operand)
           IN IF Raised(s1) THEN s1
              ELSE Return(s1, evaluate_unary_operation(expression.operator, s1.val))
      [] OTHER -> Raise(st, "TypeError", "Unknown expression type: " \o expression.node)

(***************************************************************************)
(* interpreter.py: statements.  The evaluator is a recursive walk; its     *)
(* Python call stack is the sequence `stack` of frames, innermost last:    *)
(*   "stmts"  a `for statement in ...` loop over a statement list, at idx; *)
(*            owner says whose loop it is: interpret ("program"), a user   *)
(*            procedure ("procedure", with its locals call and old_scope)  *)
(*            or a compound statement or single body statement ("block");  *)
(*   "for"    execute_for_statement waiting for its body, with its locals  *)
(*            end and current;                                             *)
(*   "while"  execute_while_statement waiting for its body.                *)
(***************************************************************************)
NoCall == ProcedureCall("", <<>>)
StmtsFrame(statements, owner, old_scope, call) ==
    [kind |-> "stmts", statements |-> statements, idx |-> 1, owner |-> owner,
     old_scope |-> old_scope, call |-> call]
ForFrame(statement, end, current, act) ==
    [kind |-> "for", statement |-> statement, end |-> end, current |-> current, act |-> act]
WhileFrame(statement) == [kind |-> "while", statement |-> statement]

Top == stack[Len(stack)]
AtStatement ==
    /\ pc = "run"
    /\ stack # <<>>
    /\ Top.kind = "stmts"
    /\ Top.idx <= Len(Top.statements)
Cur == Top.statements[Top.idx]

\* the stack once the current statement has been taken from its list
Advanced == [stack EXCEPT ![Len(stack)].idx = @ + 1]

\* a compound statement or a body whose statements are all done has returned
RECURSIVE Unwind(_)
Unwind(stk) ==
    IF /\ stk # <<>>
       /\ Last(stk).kind = "stmts"
       /\ Last(stk).owner = "block"
       /\ Last(stk).idx > Len(Last(stk).statements)
    THEN Unwind(Front(stk))
    ELSE stk

\* execute_statement(statement) called on a body
Body(statement) == StmtsFrame(<<statement>>, "block", 0, NoCall)

\* the object graph the evaluator holds
St == [scopes |-> scopes, syms |-> syms, lists |-> lists, cur |-> current_scope,
       procedures |-> procedures, output |-> output, exc |-> NoExc, val |-> NoValue]

\* Outcome with the exception swallowed: the run goes on
Outcome_swallowed(st) == "run"

\* where the evaluator is after a step that ended in state st: an exception
\* propagates out of interpret()
Outcome(st) == IF Raised(st) THEN "error" ELSE "run"

\* the effect of one step of the evaluator: the object graph st2 it leaves, the
\* frames stk2 that are pending after it, and what it adds to the log
Step(st2, stk2, events) ==
    /\ scopes' = st2.scopes
    /\ syms' = st2.syms
    /\ lists' = st2.lists
    /\ current_scope' = st2.cur
    /\ procedures' = st2.procedures
    /\ output' = st2.output
    /\ pc' = Outcome(st2)
    /\ exc' = IF Raised(st2) THEN st2.exc ELSE exc
    /\ stack' = IF Raised(st2) THEN stack ELSE Unwind(stk2)
    /\ log' = IF Raised(st2) THEN log ELSE log \o events
    /\ UNCHANGED <<entry, program, drvVars, otherVars>>

\* lines 27-49: the default value of a declared variable; arrays get a new list
DefaultValue(declaration) ==
    CASE declaration.type = "INTEGER" -> PyInt(0)
      [] declaration.type = "REAL" -> PyFloat(0, 1)
      [] declaration.type = "STRING" -> PyStr("")
      [] OTHER -> PyInt(0)
DefaultType(declaration) ==
    IF declaration.type \in {"INTEGER", "REAL", "STRING"} THEN declaration.type ELSE "INTEGER"

\* [x] * n
Repeat(x, n) == [j \in 1 .. Max(0, n) |-> x]

\* lines 22-53: one declaration of the module
declare(st, declaration) ==
    CASE declaration.node = "ProcedureDeclaration" ->
           [st EXCEPT !.procedures = Append(@, declaration)]
      [] declaration.node = "VarDeclaration" ->
           IF declaration.has_array_size
           THEN LET ref == Len(st.lists) + 1
                    s1 == [st EXCEPT !.lists = Append(@, Repeat(DefaultValue(declaration),
                                                                declaration.array_size))]
                    s2 == define(s1, [Symbol(declaration.name, declaration.type, FALSE)
                                        EXCEPT !.has_runtime_value = TRUE,
                                               !.runtime_value = RuntimeValue(PyList(ref), "ARRAY")])
                IN s2
           ELSE define(st, [Symbol(declaration.name, declaration.type, FALSE)
                              EXCEPT !.has_runtime_value = TRUE,
                                     !.runtime_value = RuntimeValue(DefaultValue(declaration),
                                                                    DefaultType(declaration))])
      [] OTHER -> st

RECURSIVE declare_all(_, _, _)
declare_all(st, declarations, j) ==
    IF j > Len(declarations) \/ Raised(st) THEN st
    ELSE declare_all(declare(st, declarations[j]), declarations, j + 1)

\* Interpreter.interpret, lines 19-55: clear the output, store the procedures and
\* initialise the variables, then start on the statements
Interpret ==
    /\ pc = "idle"
    /\ entry \in {"interpret", "main", "emit", "session"}
    /\ entry \in {"main", "session"} => drv = "interpreting"
    /\ LET s0 == [St EXCEPT !.output = <<>>]
           s1 == declare_all(s0, program.declarations, 1)
       IN Step(s1, <<StmtsFrame(program.statements, "program", 0, NoCall)>>, <<>>)

\* Interpreter.interpret, line 58: all statements done, the output is returned
InterpretReturn ==
    /\ pc = "run"
    /\ stack # <<>>
    /\ Top.kind = "stmts" /\ Top.owner = "program" /\ Top.idx > Len(Top.statements)
    /\ pc' = "done"
    /\ stack' = <<>>
    /\ UNCHANGED <<entry, program, scopes, syms, lists, current_scope, procedures, output,
                   exc, log, drvVars, otherVars>>

\* Interpreter.set_array_element
set_array_element(st, array_access, value) ==
    LET s1 == get_variable(st, array_access.name)
        s2 == IF array_access.has_index
              THEN evaluate_expression(s1, array_access.indices[1])
              ELSE Raise(s1, "TypeError", "Unknown expression type: <class 'NoneType'>")
        s3 == CheckIndex(s2, array_access.name, s1.val, s2.val)
    IN IF Raised(s1) THEN s1
       ELSE IF Raised(s2) THEN s2
       ELSE IF Raised(s3) THEN s3
       ELSE [s3 EXCEPT !.lists[s1.val.value.n][s2.val.value.n + 1] = value.value]

\* Interpreter.execute_assignment
execute_assignment(st, assignment) ==
    LET s1 == evaluate_expression(st, assignment.expression)
    IN IF Raised(s1) THEN s1
       ELSE IF assignment.variable.node = "str"
       THEN set_variable(s1, assignment.variable.name, s1.val)
       ELSE IF assignment.variable.node = "ArrayAccess"
       THEN set_array_element(s1, assignment.variable, s1.val)
       ELSE Raise(s1, "TypeError", "Invalid assignment target: " \o assignment.variable.node)

ExecuteAssignment ==
    /\ AtStatement
    /\ Cur.node = "Assignment"
    /\ Step(execute_assignment(St, Cur), Advanced, <<>>)

\* lines 100-102 and 106-108: for arg in call.arguments, append str(value.value)
RECURSIVE write_arguments(_, _, _)
write_arguments(st, arguments, j) ==
    IF j > Len(arguments) THEN st
    ELSE LET s1 == evaluate_expression(st, arguments[j])
         IN IF Raised(s1) THEN s1
            ELSE write_arguments([s1 EXCEPT !.output = Append(@, Str(s1.val.value, s1.lists))],
                                 arguments, j + 1)

\* Interpreter.execute_write_procedure
execute_write_procedure(st, call) ==
    IF call.arguments = <<>> THEN Raise(st, "TypeError", "Write requires at least one argument")
    ELSE write_arguments(st, call.arguments, 1)

\* WriteLn without its newline
execute_writeln_procedure_bare(st, call) == write_arguments(st, call.arguments, 1)

\* Interpreter.execute_writeln_procedure
execute_writeln_procedure(st, call) ==
    LET s1 == write_arguments(st, call.arguments, 1)
    IN IF Raised(s1) THEN s1 ELSE [s1 EXCEPT !.output = Append(@, "\n")]

ExecuteWrite ==
    /\ AtStatement
    /\ Cur.node = "ProcedureCall" /\ Cur.name = "Write"
    /\ Step(execute_write_procedure(St, Cur), Advanced, <<>>)

ExecuteWriteLn ==
    /\ AtStatement
    /\ Cur.node = "ProcedureCall" /\ Cur.name = "WriteLn"
    /\ Step(execute_writeln_procedure(St, Cur), Advanced, <<>>)

\* Interpreter.execute_user_procedure, lines 112-123: the new scope and the
\* parameters; the body is then pending with the scope to restore
enter_procedure(st, call) ==
    bind_parameters(push_scope(st), call.arguments,
                    ProcedureOf(st.procedures, call.name).parameters, 1)

\* Interpreter.execute_procedure_call for a name that is not Write or WriteLn
ExecuteUserProcedure ==
    /\ AtStatement
    /\ Cur.node = "ProcedureCall" /\ Cur.name \notin {"Write", "WriteLn"}
    /\ IF InProcedures(procedures, Cur.name)
       THEN Step(enter_procedure(St, Cur),
                 Append(Advanced, StmtsFrame(ProcedureOf(procedures, Cur.name).statements,
                                             "procedure", current_scope, Cur)),
                 <<[ev |-> "call", name |-> Cur.name, act |-> 0, value |-> 0]>>)
       ELSE Step(Raise(St, "NameError", "Procedure '" \o Cur.name \o "' not defined"),
                 stack, <<>>)

\* the scopes and symbols still referenced once scope sc is current again: the
\* callee's scope and its symbols were created after sc and are garbage
Reclaim(st, sc) ==
    LET keep == {j \in 1 .. Len(st.syms) :
                    \E h \in 1 .. sc : \E m \in 1 .. Len(st.scopes[h].symbols) :
                        st.scopes[h].symbols[m].sym = j}
        live == IF keep = {} THEN 0 ELSE CHOOSE j \in keep : \A h \in keep : h <= j
    IN [st EXCEPT !.scopes = SubSeq(@, 1, sc), !.syms = SubSeq(@, 1, live), !.cur = sc]

\* Interpreter.execute_user_procedure, line 130: the body is done, the caller's
\* scope is current again
restore_scope(st, old_scope) == Reclaim(st, old_scope)

ProcedureReturn ==
    /\ pc = "run"
    /\ stack # <<>>
    /\ Top.kind = "stmts" /\ Top.owner = "procedure" /\ Top.idx > Len(Top.statements)
    /\ Step(restore_scope(St, Top.old_scope), Front(stack),
            <<[ev |-> "return", name |-> "", act |-> 0, value |-> 0]>>)

\* Interpreter.execute_if_statement
ExecuteIf ==
    /\ AtStatement
    /\ Cur.node = "IfStatement"
    /\ LET s1 == evaluate_expression(St, Cur.condition)
       IN Step(s1,
               IF Raised(s1) THEN stack
               ELSE IF Truthy(s1.val.value, lists) THEN Append(Advanced, Body(Cur.then_statement))
               ELSE IF Cur.else_statement # <<>> THEN Append(Advanced, Body(Cur.else_statement[1]))
               ELSE Advanced,
               <<>>)

\* Interpreter.execute_compound_statement
ExecuteCompound ==
    /\ AtStatement
    /\ Cur.node = "CompoundStatement"
    /\ Step(St, Append(Advanced, StmtsFrame(Cur.statements, "block", 0, NoCall)), <<>>)

\* Interpreter.execute_while_statement, lines 141-144: one turn of `while True`,
\* with the frame of the while statement on top of stk
while_turn(st, stk) ==
    LET statement == Last(stk).statement
        s1 == evaluate_expression(st, statement.condition)
    IN Step(s1,
            IF Raised(s1) THEN stk
            ELSE IF ~Truthy(s1.val.value, st.lists) THEN Front(stk)
            ELSE Append(stk, Body(statement.statement)),
            <<>>)

ExecuteWhile ==
    /\ AtStatement
    /\ Cur.node = "WhileStatement"
    /\ while_turn(St, Append(Advanced, WhileFrame(Cur)))

\* the body of the while statement is done: the next turn
WhileIterate ==
    /\ pc = "run"
    /\ stack # <<>>
    /\ Top.kind = "while"
    /\ while_turn(St, stack)

\* number of FOR statements entered so far
ForCount == Cardinality({j \in 1 .. Len(log) : log[j].ev = "for_enter"})

\* line 158: current.value > end.value
for_done_off_by_one(current, end) == Compare(current.value, end.value, ">=")
for_done(current, end) == Compare(current.value, end.value, ">")

\* Interpreter.execute_for_statement, lines 157-161: one turn of `while True`,
\* with the frame of the for statement (its end, its activation) on top of stk
for_turn(st, stk, events) ==
    LET frame == Last(stk)
        s1 == get_variable(st, frame.statement.variable)
        current == s1.val
        cmp == for_done(current, frame.end)
        s2 == IF cmp.class # "" THEN Raise(s1, cmp.class, cmp.msg) ELSE s1
    IN IF Raised(s1) THEN Step(s1, stk, <<>>)
       ELSE IF Raised(s2) THEN Step(s2, stk, <<>>)
       ELSE IF cmp.v.n = 1
       THEN Step(s2, Front(stk),
                 events \o <<[ev |-> "for_exit", name |-> "", act |-> frame.act, value |-> 0]>>)
       ELSE Step(s2,
                 Append([stk EXCEPT ![Len(stk)].current = current], Body(frame.statement.statement)),
                 events \o <<[ev |-> "for_body", name |-> frame.statement.variable,
                              act |-> frame.act, value |-> current.value.n]>>)

\* Interpreter.execute_for_statement, lines 147-154: the bounds, evaluated once,
\* and the loop variable set to the start; then the first turn
ExecuteFor ==
    /\ AtStatement
    /\ Cur.node = "ForStatement"
    /\ LET s1 == evaluate_expression(St, Cur.start)
           s2 == evaluate_expression(s1, Cur.end)
           start == s1.val
           end == s2.val
           s3 == IF start.value.k # "int" \/ end.value.k # "int"
                 THEN Raise(s2, "TypeError", "For loop bounds must be integers")
                 ELSE set_variable(s2, Cur.variable, RuntimeValue(PyInt(start.value.n), "INTEGER"))
           act == ForCount + 1
       IN IF Raised(s1) THEN Step(s1, stack, <<>>)
          ELSE IF Raised(s2) THEN Step(s2, stack, <<>>)
          ELSE IF Raised(s3) THEN Step(s3, stack, <<>>)
          ELSE for_turn(s3, Append(Advanced, ForFrame(Cur, end, start, act)),
                        <<[ev |-> "for_enter", name |-> Cur.variable, act |-> act,
                           value |-> start.value.n, end |-> end.value.n]>>)

\* Interpreter.execute_for_statement, line 164 and the next turn: the body is
\* done, the loop variable becomes the value read before the body plus one
ForIterate ==
    /\ pc = "run"
    /\ stack # <<>>
    /\ Top.kind = "for"
    /\ LET s1 == set_variable(St, Top.statement.variable,
                              RuntimeValue(PyInt(Top.current.value.n + 1), "INTEGER"))
       IN IF Raised(s1) THEN Step(s1, stack, <<>>)
          ELSE for_turn(s1, stack, <<>>)

(***************************************************************************)
(* The programs the evaluator is run on.                                   *)
(***************************************************************************)
Write(e) == ProcedureCall("Write", <<e>>)
Add(l, r) == BinaryExpression(l, "+", r)

\* FOR i := a TO n DO body END with n a variable, so that the body can try to
\* move the bound; the bodies write i, assign i, assign n, or nest a loop on i
ForBodies ==
    { Write(Variable("i")),
      CompoundStatement(<<Write(Variable("i")), Assignment(Name("i"), IntLit(7))>>),
      CompoundStatement(<<Write(Variable("i")), Assignment(Name("n"), IntLit(0))>>),
      ForStatement("i", IntLit(0), IntLit(1), Write(Variable("i"))) }

ForProgram(a, b, body) ==
    Program("M",
            <<VarDeclaration("i", "INTEGER", <<>>), VarDeclaration("n", "INTEGER", <<>>)>>,
            <<Assignment(Name("n"), IntLit(b)),
              ForStatement("i", IntLit(a), Variable("n"), body),
              Write(Variable("i"))>>)

ForPrograms ==
    {ForProgram(a, b, body) : a \in -1 .. 1, b \in -1 .. MaxForBound, body \in ForBodies}

\* a procedure P(x: INTEGER) or P(VAR x: INTEGER) whose body assigns its parameter,
\* called with the caller's variable k; the parameter may also be named k
ParamBodies(x) ==
    { <<Assignment(Name(x), Add(Variable(x), IntLit(1)))>>,
      <<Assignment(Name(x), IntLit(9)), Write(Variable(x))>>,
      <<Write(Variable(x))>> }

ParamProgram(x, is_reference, body, v) ==
    Program("M",
            <<VarDeclaration("k", "INTEGER", <<>>),
              ProcedureDeclaration("P", <<Parameter(x, "INTEGER", is_reference)>>, "", <<>>, body)>>,
            <<Assignment(Name("k"), IntLit(v)),
              ProcedureCall("P", <<Variable("k")>>),
              Write(Variable("k"))>>)

ParamPrograms ==
    UNION {{ParamProgram(x, r, body, v) : r \in BOOLEAN, body \in ParamBodies(x), v \in {0, 5}} :
              x \in {"x", "k"}}

\* scenario 5 of the specification: P(x: INTEGER) sets x := x + 1, called with k = 5
Scenario5 ==
    ParamProgram("x", FALSE, <<Assignment(Name("x"), Add(Variable("x"), IntLit(1)))>>, 5)

\* a procedure that calls P in turn, and a procedure called with an expression
NestedCallProgram ==
    Program("M",
            <<VarDeclaration("k", "INTEGER", <<>>),
              ProcedureDeclaration("P", <<Parameter("x", "INTEGER", FALSE)>>, "", <<>>,
                                   <<Assignment(Name("x"), IntLit(9))>>),
              ProcedureDeclaration("Q", <<Parameter("y", "INTEGER", FALSE)>>, "", <<>>,
                                   <<ProcedureCall("P", <<Variable("y")>>),
                                     Assignment(Name("y"), Add(Variable("y"), Variable("k"))),
                                     ProcedureCall("WriteLn", <<Variable("y")>>)>>)>>,
            <<Assignment(Name("k"), IntLit(2)),
              ProcedureCall("Q", <<Add(Variable("k"), IntLit(1))>>),
              ProcedureCall("WriteLn", <<>>),
              ProcedureCall("R", <<>>)>>)

\* a function F(): INTEGER whose body is a sequence of `result := c`, possibly
\* after a Write, used as k := F()
ResultIs(c) == Assignment(Name("result"), IntLit(c))
FunctionBodies ==
    { <<ResultIs(1)>>,
      <<ResultIs(1), ResultIs(2)>>,
      <<ResultIs(2), ResultIs(2)>>,
      <<Write(IntLit(3)), ResultIs(1)>>,
      <<Write(IntLit(3))>> }

FunctionProgram(body) ==
    Program("M",
            <<VarDeclaration("k", "INTEGER", <<>>),
              ProcedureDeclaration("F", <<>>, "INTEGER", <<>>, body)>>,
            <<Assignment(Name("k"), FunctionCall("F", <<>>)),
              Write(Variable("k"))>>)

\* a function of one parameter, applied to an expression
FunctionOfProgram(v) ==
    Program("M",
            <<VarDeclaration("k", "INTEGER", <<>>),
              ProcedureDeclaration("G", <<Parameter("x", "INTEGER", FALSE)>>, "INTEGER", <<>>,
                                   <<Assignment(Name("result"), Add(Variable("x"), IntLit(1)))>>)>>,
            <<Assignment(Name("k"), FunctionCall("G", <<IntLit(v)>>)),
              Write(Add(Variable("k"), FunctionCall("G", <<Variable("k")>>)))>>)

FunctionPrograms ==
    {FunctionProgram(body) : body \in FunctionBodies} \cup {FunctionOfProgram(v) : v \in 0 .. 1}

\* variables of each type, module-level and local to a procedure, read before
\* any assignment
Types == {"INTEGER", "REAL", "STRING"}
GlobalReadProgram(T) ==
    Program("M", <<VarDeclaration("v", T, <<>>)>>,
            <<Write(Variable("v")), Assignment(Name("v"), Variable("v")), Write(Variable("v"))>>)
LocalReadProgram(T) ==
    Program("M",
            <<ProcedureDeclaration("Q", <<>>, "", <<VarDeclaration("l", T, <<>>)>>,
                                   <<Write(Variable("l"))>>)>>,
            <<ProcedureCall("Q", <<>>), ProcedureCall("WriteLn", <<>>)>>)
ReadPrograms == {GlobalReadProgram(T) : T \in Types} \cup {LocalReadProgram(T) : T \in Types}

\* an array a of each declared size, written and read at every index from one
\* below the first to one above the last, at module level and inside a procedure
ArrayWriteProgram(T, size, j, inProc) ==
    LET access == <<Assignment(ArrayAccess("a", <<IntLit(0)>>), IntLit(4)),
                    Assignment(ArrayAccess("a", <<Add(IntLit(j), IntLit(0))>>), IntLit(7)),
                    Write(Variable("a"))>>
    IN Program("M",
               <<VarDeclaration("a", T, <<size>>), VarDeclaration("x", "INTEGER", <<>>),
                 ProcedureDeclaration("P", <<>>, "", <<>>, access)>>,
               IF inProc THEN <<ProcedureCall("P", <<>>)>> ELSE access)
ArrayReadProgram(T, size, j, viaWrite) ==
    Program("M",
            <<VarDeclaration("x", "INTEGER", <<>>), VarDeclaration("a", T, <<size>>)>>,
            <<Assignment(ArrayAccess("a", <<IntLit(size - 1)>>), IntLit(4)),
              IF viaWrite THEN Write(ArrayAccess("a", <<IntLit(j)>>))
              ELSE Assignment(Name("x"), ArrayAccess("a", <<IntLit(j)>>)),
              Write(Variable("x"))>>)
\* an array of two dimensions has no array_size: it is a plain variable
Array2DProgram ==
    Program("M", <<VarDeclaration("a", "INTEGER", <<2, 2>>)>>,
            <<Write(Variable("a")),
              Assignment(ArrayAccess("a", <<IntLit(0), IntLit(1)>>), IntLit(1))>>)
ArrayPrograms ==
    {ArrayWriteProgram(T, size, j, inProc) :
        T \in {"INTEGER", "STRING"}, size \in 1 .. MaxArraySize, j \in -1 .. MaxArraySize + 1,
        inProc \in BOOLEAN}
    \cup {ArrayReadProgram(T, size, j, w) :
        T \in {"INTEGER"}, size \in 1 .. MaxArraySize, j \in -1 .. MaxArraySize + 1,
        w \in BOOLEAN}
    \cup {Array2DProgram}

\* a statement that divides by a divisor d in -1 .. 1, between two Writes, at
\* module level, inside a loop and inside a procedure
DivisionProgram(operator, d, place) ==
    LET failing == Assignment(Name("x"), BinaryExpression(IntLit(3), operator, IntLit(d)))
        wrapped == CASE place = "for" -> ForStatement("x", IntLit(0), IntLit(2), failing)
                     [] place = "write" -> ProcedureCall("Write",
                                             <<IntLit(8), BinaryExpression(IntLit(3), operator, IntLit(d))>>)
                     [] place = "call" -> ProcedureCall("P", <<>>)
                     [] OTHER -> failing
    IN Program("M",
               <<VarDeclaration("x", IF operator = "/" THEN "REAL" ELSE "INTEGER", <<>>),
                 ProcedureDeclaration("P", <<>>, "", <<>>, <<failing>>)>>,
               <<Write(IntLit(1)), wrapped, Write(Variable("x"))>>)
DivisionPrograms ==
    {DivisionProgram(operator, d, place) :
        operator \in {"/", "DIV", "MOD"}, d \in -1 .. 1, place \in {"plain", "for", "write", "call"}}

\* WHILE and IF: count n down to zero, writing whether n is above one
WhileProgram(v) ==
    Program("M", <<VarDeclaration("n", "INTEGER", <<>>)>>,
            <<Assignment(Name("n"), IntLit(v)),
              WhileStatement(BinaryExpression(Variable("n"), ">", IntLit(0)),
                 CompoundStatement(<<
                    IfStatement(BinaryExpression(Variable("n"), ">", IntLit(1)),
                                Write(StrLit("big")), <<Write(StrLit("one"))>>),
                    IfStatement(BinaryExpression(Variable("n"), "=", IntLit(2)),
                                Write(Variable("n")), NoElse),
                    Assignment(Name("n"), BinaryExpression(Variable("n"), "-", IntLit(1)))>>)),
              ProcedureCall("WriteLn", <<Variable("n"), RealLit(1, 2)>>)>>)
WhilePrograms == {WhileProgram(v) : v \in 0 .. 2}

\* target := l op r; Write(target): a quotient of two literals, each INTEGER
\* (7 and 2) or REAL (7.5 and 2.0), stored in the INTEGER i or the REAL r
LeftOperand(T) == IF T = "REAL" THEN RealLit(15, 2) ELSE IntLit(7)
RightOperand(T) == IF T = "REAL" THEN RealLit(2, 1) ELSE IntLit(2)
QuotientProgram(target, L, operator, R) ==
    Program("M",
            <<VarDeclaration("i", "INTEGER", <<>>), VarDeclaration("r", "REAL", <<>>)>>,
            <<Assignment(Name(target),
                         BinaryExpression(LeftOperand(L), operator, RightOperand(R))),
              Write(Variable(target))>>)
QuotientPrograms ==
    {QuotientProgram(target, L, operator, R) :
        target \in {"i", "r"}, L \in {"INTEGER", "REAL"},
        operator \in {"/", "DIV", "MOD"}, R \in {"INTEGER", "REAL"}}

\* m := "Hello, World!"; Write(m); WriteLn()
HelloProgram ==
    Program("H", <<VarDeclaration("m", "STRING", <<>>)>>,
            <<Assignment(Name("m"), StrLit("Hello, World!")),
              Write(Variable("m")),
              ProcedureCall("WriteLn", <<>>)>>)

\* Write and WriteLn between two other fragments, with no, one, two or three
\* arguments: a variable, a string, a real, and a division by zero
OutputArguments == {Variable("x"), StrLit("s"), RealLit(1, 2),
                    BinaryExpression(IntLit(1), "DIV", IntLit(0))}
OutputArgumentLists ==
    {<<>>, <<Variable("x"), StrLit("s"), RealLit(1, 2)>>}
    \cup {<<a>> : a \in OutputArguments}
    \cup {<<a, b>> : a \in OutputArguments, b \in OutputArguments}
OutputProgram(name, arguments) ==
    Program("M", <<VarDeclaration("x", "INTEGER", <<>>)>>,
            <<Assignment(Name("x"), IntLit(7)),
              Write(StrLit("a")),
              ProcedureCall(name, arguments),
              Write(StrLit("z"))>>)
OutputPrograms ==
    {HelloProgram}
    \cup {OutputProgram(name, arguments) :
             name \in {"Write", "WriteLn"}, arguments \in OutputArgumentLists}

\* a module variable x, and a procedure Q that reads or assigns x: called from
\* the module body, from P(x), from R called by P(x), or declaring its own x
ScopingProgram(use, via) ==
    LET Q == ProcedureDeclaration("Q", <<>>, "",
                IF via = "own" THEN <<VarDeclaration("x", "INTEGER", <<>>)>> ELSE <<>>,
                <<IF use = "read" THEN Write(Variable("x"))
                  ELSE Assignment(Name("x"), IntLit(5))>>)
        R == ProcedureDeclaration("R", <<>>, "", <<>>, <<ProcedureCall("Q", <<>>)>>)
        P == ProcedureDeclaration("P", <<Parameter("x", "INTEGER", FALSE)>>, "", <<>>,
                <<ProcedureCall(IF via = "chain" THEN "R" ELSE "Q", <<>>),
                  Write(Variable("x"))>>)
    IN Program("T", <<VarDeclaration("x", "INTEGER", <<>>), Q, R, P>>,
               <<Assignment(Name("x"), IntLit(1)),
                 IF via \in {"direct", "chain"} THEN ProcedureCall("P", <<IntLit(2)>>)
                 ELSE ProcedureCall("Q", <<>>),
                 Write(Variable("x"))>>)
ScopingPrograms ==
    {ScopingProgram(use, via) :
        use \in {"read", "write"}, via \in {"module", "direct", "chain", "own"}}

\* Write("a"); Write(L op R) for AND and OR: L and R a false or a true value
\* of each type, a division by zero, or a name that is not defined
LogicalOperands ==
    {IntLit(0), IntLit(1), IntLit(2), RealLit(0, 1), RealLit(1, 2), StrLit(""), StrLit("s"),
     BinaryExpression(IntLit(1), "DIV", IntLit(0)), Variable("u")}
LogicalProgram(L, operator, R) ==
    Program("M", <<>>, <<Write(StrLit("a")), Write(BinaryExpression(L, operator, R))>>)
LogicalPrograms ==
    {LogicalProgram(L, operator, R) :
        L \in LogicalOperands, operator \in {"AND", "OR"}, R \in LogicalOperands}

EvalPrograms ==
    LogicalPrograms \cup ScopingPrograms \cup ForPrograms \cup ParamPrograms \cup {NestedCallProgram} \cup FunctionPrograms
    \cup ReadPrograms \cup ArrayPrograms \cup DivisionPrograms \cup WhilePrograms
    \cup QuotientPrograms \cup OutputPrograms

\* Write(e): e an operand alone, or l op r for every operator of the language
\* on the operands 4, 2, -4 and 0.5, whose quotients StrFloat writes exactly
Operands == {IntLit(4), IntLit(2), UnaryExpression("-", IntLit(4)), RealLit(1, 2)}
BinaryOperators ==
    {"+", "-", "*", "/", "DIV", "MOD", "=", "#", "<", "<=", ">", ">=", "AND", "OR"}
ExpressionProgram(e) == Program("M", <<>>, <<Write(e)>>)
ExpressionPrograms ==
    {ExpressionProgram(e) : e \in Operands}
    \cup {ExpressionProgram(BinaryExpression(l, operator, r)) :
             l \in Operands, operator \in BinaryOperators, r \in Operands}

\* IF, IF with ELSE, WHILE and FOR around a body that is a Write, an empty
\* compound statement or such a statement again, in the module body or in a
\* procedure that the module body calls
ControlKinds == {"if", "else", "while", "for"}
Control(kind, body) ==
    CASE kind = "if" -> IfStatement(IntLit(1), body, NoElse)
      [] kind = "else" -> IfStatement(IntLit(0), CompoundStatement(<<>>), <<body>>)
      [] kind = "while" -> WhileStatement(IntLit(0), body)
      [] OTHER -> ForStatement("i", IntLit(1), IntLit(1), body)
ControlBodies == {Write(IntLit(1)), CompoundStatement(<<>>)}
ControlStatements ==
    {Control(kind, body) : kind \in ControlKinds, body \in ControlBodies}
    \cup {Control(outer, Control(kind, body)) :
             outer \in ControlKinds, kind \in ControlKinds, body \in ControlBodies}
ControlProgram(statement, inProc) ==
    IF inProc
    THEN Program("M", <<ProcedureDeclaration("P", <<>>, "", <<>>, <<statement, Write(IntLit(2))>>)>>,
                 <<ProcedureCall("P", <<>>)>>)
    ELSE Program("M", <<>>, <<statement, Write(IntLit(2))>>)
ControlPrograms ==
    {ControlProgram(statement, inProc) : statement \in ControlStatements, inProc \in BOOLEAN}

\* VAR v: INTEGER; v := 1 + 2; Write(v) for a variable named as the emitter
\* names its temporaries and labels, or otherwise
VariableNames == {"t1", "t2", "then1", "x"}
NamedProgram(v) ==
    Program("T", <<VarDeclaration(v, "INTEGER", <<>>)>>,
            <<Assignment(Name(v), Add(IntLit(1), IntLit(2))),
              IfStatement(IntLit(1), Write(Variable(v)), NoElse)>>)
NamedPrograms == {NamedProgram(v) : v \in VariableNames}

\* the programs that both backends are given
EmitPrograms == ExpressionPrograms \cup EvalPrograms \cup ControlPrograms \cup NamedPrograms

(***************************************************************************)
(* semantic_analyzer.py: SemanticAnalyzer.  The analyzer's object graph is *)
(* a record st with the heaps scopes and syms, the current scope cur, the  *)
(* procedure table procedures, the list errors, the exception in flight    *)
(* exc and the type ty that the last analyze_expression returned.  The     *)
(* global scope is scope 1.                                                *)
(***************************************************************************)
\* the nested list that parse_procedure_declaration appends for each
\* declaration section of a procedure (parser.py line 128)
DeclarationList(declarations) == [node |-> "list", declarations |-> declarations]

\* _add_builtin_procedures
add_builtin_procedures ==
    <<ProcedureDeclaration("Write", <<>>, "", <<>>, <<>>),
      ProcedureDeclaration("WriteLn", <<>>, "", <<>>, <<>>)>>

\* the state that analyze() starts from (lines 57-61)
AnalyzerReset ==
    [scopes |-> <<Scope(0)>>, syms |-> <<>>, cur |-> 1,
     procedures |-> add_builtin_procedures, errors |-> <<>>, exc |-> NoExc, ty |-> ""]

is_type_compatible(target_type, source_type) ==
    \/ target_type = source_type
    \/ target_type = "REAL" /\ source_type = "INTEGER"

\* current_scope.lookup(name), then global_scope.lookup(name)
Resolve(st, name) ==
    LET symbol == lookup(st.scopes, st.cur, name)
    IN IF symbol # 0 THEN symbol ELSE lookup(st.scopes, 1, name)

\* one call after another: when the first raised, the exception propagates
Then(st, rest(_)) == IF Raised(st) THEN st ELSE rest(st)

RECURSIVE analyze_expression(_, _)
RECURSIVE analyze_arguments(_, _, _, _, _, _)
RECURSIVE analyze_each(_, _, _)

\* the loop over zip(arguments, parameters): each argument type against its parameter
analyze_arguments(st, what, name, arguments, parameters, j) ==
    IF j > Len(arguments) \/ j > Len(parameters) THEN st
    ELSE Then(analyze_expression(st, arguments[j]),
              LAMBDA s1 :
                 IF ~is_type_compatible(parameters[j].type, s1.ty)
                 THEN Raise(s1, "TypeError",
                            "Argument " \o StrInt(j) \o " of " \o what \o " '" \o name
                            \o "' expects " \o parameters[j].type \o ", got " \o s1.ty)
                 ELSE analyze_arguments(s1, what, name, arguments, parameters, j + 1))

\* the arguments of Write and WriteLn: analysed, their types not checked
analyze_each(st, arguments, j) ==
    IF j > Len(arguments) THEN st
    ELSE Then(analyze_expression(st, arguments[j]),
              LAMBDA s1 : analyze_each(s1, arguments, j + 1))

\* analyze_expression(access.index): the index is None unless there is one index
analyze_index(st, access) ==
    IF ~access.has_index
    THEN Raise(st, "TypeError", "Unknown expression type: <class 'NoneType'>")
    ELSE Then(analyze_expression(st, access.indices[1]),
              LAMBDA s1 :
                 IF s1.ty # "INTEGER"
                 THEN Raise(s1, "TypeError", "Array index must be integer")
                 ELSE s1)

\* the type of a binary operation on operands of types left_type and right_type
binary_type(operator, left_type, right_type) ==
    IF operator \in {"+", "-", "*", "/", "DIV", "MOD"}
       /\ (left_type = "REAL" \/ right_type = "REAL")
    THEN "REAL"
    ELSE "INTEGER"

analyze_expression(st, expression) ==
    CASE expression.node = "Literal" -> [st EXCEPT !.ty = expression.type]
      [] expression.node = "Variable" ->
           IF Resolve(st, expression.name) = 0
           THEN Raise(st, "NameError", "Variable '" \o expression.name \o "' not defined")
           ELSE [st EXCEPT !.ty = st.syms[Resolve(st, expression.name)].type]
      [] expression.node = "ArrayAccess" ->
           IF Resolve(st, expression.name) = 0
           THEN Raise(st, "NameError", "Array '" \o expression.name \o "' not defined")
           ELSE Then(analyze_index(st, expression),
                     LAMBDA s1 : [s1 EXCEPT !.ty = st.syms[Resolve(st, expression.name)].type])
      [] expression.node = "FunctionCall" ->
           IF ~InProcedures(st.procedures, expression.name)
           THEN Raise(st, "NameError", "Function '" \o expression.name \o "' not defined")
           ELSE IF ProcedureOf(st.procedures, expression.name).return_type = ""
           THEN Raise(st, "TypeError",
                      "'" \o expression.name \o "' is a procedure, not a function")
           ELSE IF Len(expression.arguments)
                   # Len(ProcedureOf(st.procedures, expression.name).parameters)
           THEN Raise(st, "TypeError",
                      "Function '" \o expression.name \o "' expects "
                      \o StrInt(Len(ProcedureOf(st.procedures, expression.name).parameters))
                      \o " arguments, got " \o StrInt(Len(expression.arguments)))
           ELSE Then(analyze_arguments(st, "function", expression.name, expression.arguments,
                        ProcedureOf(st.procedures, expression.name).parameters, 1),
                     LAMBDA s1 :
                        [s1 EXCEPT !.ty = ProcedureOf(st.procedures, expression.name).return_type])
      [] expression.node = "BinaryExpression" ->
           Then(analyze_expression(st, expression.left),
                LAMBDA s1 :
                   Then(analyze_expression(s1, expression.right),
                        LAMBDA s2 :
                           IF ~is_type_compatible(s1.ty, s2.ty)
                           THEN Raise(s2, "TypeError",
                                      "Type mismatch in binary operation: " \o s1.ty \o " "
                                      \o expression.operator \o " " \o s2.ty)
                           ELSE [s2 EXCEPT !.ty = binary_type(expression.operator, s1.ty, s2.ty)]))
      [] expression.node = "UnaryExpression" ->
           Then(analyze_expression(st, expression.operand),
                LAMBDA s1 :
                   IF expression.operator \in {"+", "-"} THEN s1
                   ELSE Raise(s1, "TypeError", "Invalid unary operator: " \o expression.operator))
      [] OTHER ->
           Raise(st, "TypeError", "Unknown expression type: <class 'ast." \o expression.node \o "'>")

RECURSIVE analyze_statement(_, _)
RECURSIVE analyze_statements(_, _, _)

analyze_statements(st, statements, j) ==
    IF j > Len(statements) THEN st
    ELSE Then(analyze_statement(st, statements[j]),
              LAMBDA s1 : analyze_statements(s1, statements, j + 1))

\* analyze_name_assignment without the test of symbol.is_constant
analyze_name_assignment_unchecked(st, assignment, symbol) ==
    IF symbol = 0
    THEN Raise(st, "NameError", "Variable '" \o assignment.variable.name \o "' not defined")
    ELSE Then(analyze_expression(st, assignment.expression),
              LAMBDA s1 :
                 IF ~is_type_compatible(st.syms[symbol].type, s1.ty)
                 THEN Raise(s1, "TypeError",
                            "Cannot assign " \o s1.ty \o " to " \o st.syms[symbol].type
                            \o " variable '" \o assignment.variable.name \o "'")
                 ELSE s1)
\* lines 153-170: assignment to a plain name
analyze_name_assignment(st, assignment, symbol) ==
    IF symbol = 0
    THEN Raise(st, "NameError", "Variable '" \o assignment.variable.name \o "' not defined")
    ELSE IF st.syms[symbol].is_constant
    THEN Raise(st, "NameError",
               "Cannot assign to constant '" \o assignment.variable.name \o "'")
    ELSE Then(analyze_expression(st, assignment.expression),
              LAMBDA s1 :
                 IF ~is_type_compatible(st.syms[symbol].type, s1.ty)
                 THEN Raise(s1, "TypeError",
                            "Cannot assign " \o s1.ty \o " to " \o st.syms[symbol].type
                            \o " variable '" \o assignment.variable.name \o "'")
                 ELSE s1)

\* lines 172-194: assignment to an array element
analyze_element_assignment(st, assignment, symbol) ==
    IF symbol = 0
    THEN Raise(st, "NameError", "Array '" \o assignment.variable.name \o "' not defined")
    ELSE IF st.syms[symbol].is_constant
    THEN Raise(st, "NameError",
               "Cannot assign to constant array '" \o assignment.variable.name \o "'")
    ELSE IF st.syms[symbol].type # "ARRAY"
    THEN Raise(st, "TypeError", "'" \o assignment.variable.name \o "' is not an array")
    ELSE Then(analyze_index(st, assignment.variable),
              LAMBDA s1 : analyze_expression(s1, assignment.expression))

analyze_assignment(st, assignment) ==
    CASE assignment.variable.node = "str" ->
           analyze_name_assignment(st, assignment, Resolve(st, assignment.variable.name))
      [] assignment.variable.node = "ArrayAccess" ->
           analyze_element_assignment(st, assignment, Resolve(st, assignment.variable.name))
      [] OTHER ->
           Raise(st, "TypeError",
                 "Invalid assignment target: <class 'ast." \o assignment.variable.node \o "'>")

analyze_procedure_call(st, call) ==
    IF ~InProcedures(st.procedures, call.name)
    THEN Raise(st, "NameError", "Procedure '" \o call.name \o "' not defined")
    ELSE IF call.name \in {"Write", "WriteLn"}
    THEN analyze_each(st, call.arguments, 1)
    ELSE IF Len(call.arguments) # Len(ProcedureOf(st.procedures, call.name).parameters)
    THEN Raise(st, "TypeError",
               "Procedure '" \o call.name \o "' expects "
               \o StrInt(Len(ProcedureOf(st.procedures, call.name).parameters))
               \o " arguments, got " \o StrInt(Len(call.arguments)))
    ELSE analyze_arguments(st, "procedure", call.name, call.arguments,
                           ProcedureOf(st.procedures, call.name).parameters, 1)

\* the condition of an IF or WHILE: analysed, and it must be INTEGER
analyze_condition(st, condition, what) ==
    Then(analyze_expression(st, condition),
         LAMBDA s1 :
            IF s1.ty # "INTEGER"
            THEN Raise(s1, "TypeError", what \o " condition must be integer (boolean)")
            ELSE s1)

analyze_if_statement(st, statement) ==
    Then(analyze_condition(st, statement.condition, "If"),
         LAMBDA s1 :
            Then(analyze_statement(s1, statement.then_statement),
                 LAMBDA s2 :
                    IF statement.else_statement = <<>> THEN s2
                    ELSE analyze_statement(s2, statement.else_statement[1])))

analyze_while_statement(st, statement) ==
    Then(analyze_condition(st, statement.condition, "While"),
         LAMBDA s1 : analyze_statement(s1, statement.statement))

analyze_for_statement(st, statement) ==
    IF Resolve(st, statement.variable) = 0
    THEN Raise(st, "NameError", "Loop variable '" \o statement.variable \o "' not defined")
    ELSE Then(analyze_expression(st, statement.start),
              LAMBDA s1 :
                 Then(analyze_expression(s1, statement.end),
                      LAMBDA s2 :
                         IF s1.ty # "INTEGER" \/ s2.ty # "INTEGER"
                         THEN Raise(s2, "TypeError", "For loop bounds must be integers")
                         ELSE analyze_statement(s2, statement.statement)))

analyze_compound_statement(st, statement) == analyze_statements(st, statement.statements, 1)

analyze_statement(st, statement) ==
    CASE statement.node = "Assignment" -> analyze_assignment(st, statement)
      [] statement.node = "ProcedureCall" -> analyze_procedure_call(st, statement)
      [] statement.node = "IfStatement" -> analyze_if_statement(st, statement)
      [] statement.node = "WhileStatement" -> analyze_while_statement(st, statement)
      [] statement.node = "ForStatement" -> analyze_for_statement(st, statement)
      [] statement.node = "CompoundStatement" -> analyze_compound_statement(st, statement)
      [] OTHER -> st

RECURSIVE analyze_declaration(_, _)
RECURSIVE analyze_declarations(_, _, _)

analyze_declarations(st, declarations, j) ==
    IF j > Len(declarations) THEN st
    ELSE Then(analyze_declaration(st, declarations[j]),
              LAMBDA s1 : analyze_declarations(s1, declarations, j + 1))

analyze_const_declaration(st, declaration) ==
    Then(analyze_expression(st, declaration.value),
         LAMBDA s1 : define(s1, Symbol(declaration.name, s1.ty, TRUE)))

analyze_var_declaration(st, declaration) ==
    define(st, Symbol(declaration.name,
                      IF declaration.has_array_size THEN "ARRAY" ELSE declaration.type, FALSE))

\* the loop over declaration.parameters: each defined in the procedure's scope
RECURSIVE define_parameters(_, _, _)
define_parameters(st, parameters, j) ==
    IF j > Len(parameters) THEN st
    ELSE Then(define(st, Symbol(parameters[j].name, parameters[j].type, FALSE)),
              LAMBDA s1 : define_parameters(s1, parameters, j + 1))

\* lines 114-118: the procedure is stored and a scope for it made current
enter_declaration(st, declaration) ==
    [st EXCEPT !.procedures = Append(@, declaration),
               !.scopes = Append(@, Scope(st.cur)),
               !.cur = Len(st.scopes) + 1]

analyze_procedure_declaration(st, declaration) ==
    Then(define_parameters(enter_declaration(st, declaration), declaration.parameters, 1),
         LAMBDA s1 :
            Then(analyze_declarations(s1, declaration.declarations, 1),
                 LAMBDA s2 :
                    Then(analyze_statements(s2, declaration.statements, 1),
                         LAMBDA s3 : [s3 EXCEPT !.cur = st.cur])))

analyze_declaration(st, declaration) ==
    CASE declaration.node = "ConstDeclaration" -> analyze_const_declaration(st, declaration)
      [] declaration.node = "VarDeclaration" -> analyze_var_declaration(st, declaration)
      [] declaration.node = "ProcedureDeclaration" ->
           analyze_procedure_declaration(st, declaration)
      [] OTHER -> st

\* lines 72-73: the exception caught, one entry appended to errors
caught(st) ==
    IF Raised(st)
    THEN [st EXCEPT !.errors = Append(@, "Semantic error: " \o st.exc.msg), !.exc = NoExc]
    ELSE st

\* SemanticAnalyzer.analyze: the analyzer after the call; errors is what it returns
analyze(ast) ==
    caught(Then(analyze_declarations(AnalyzerReset, ast.declarations, 1),
                LAMBDA s1 : analyze_statements(s1, ast.statements, 1)))

\* The analyzer called on its own: SemanticAnalyzer().analyze(program)
Analyze ==
    /\ entry = "analyze"
    /\ drv = "idle"
    /\ analysis' = analyze(program)
    /\ drv' = "analyzed"
    /\ UNCHANGED <<entry, program, evalVars, env, messages, exe_path, exit_status, trail,
                   otherVars>>

(***************************************************************************)
(* The command-line driver: main() of oberon.py and of oberon_exe.py, and  *)
(* Compiler.compile_file and Compiler.compile_source of compiler.py.       *)
(* What the driver cannot decide is the environment's: whether the file    *)
(* exists and can be read, whether the modules load, whether the emitter   *)
(* raises (c_emitter.py imports a module oberon_ast that is to be found    *)
(* on the path), whether the C file can be written, whether a C compiler   *)
(* is found and what it does.  Each is chosen when the driver gets there.  *)
(* Lexer.tokenize and Parser.parse are given by their results on the       *)
(* source texts the driver is run on.                                      *)
(***************************************************************************)
\* a source text, the message of the error that Lexer.tokenize or Parser.parse
\* raises on it ("" when it raises none) and the Program that parse returns
Source(text, lex, parse, ast) == [text |-> text, lex |-> lex, parse |-> parse, ast |-> ast]
NoProgram == Program("", <<>>, <<>>)
NoSource == Source("", "", "", NoProgram)

\* what the machine the compiler runs on does, when that is the same for every
\* call of one process: whether the emitter raises, whether the C file can be
\* written, whether a C compiler is found and what it does.  In AnyWorld each
\* is open.
World(raised, failed, found, result) ==
    [fixed |-> TRUE, raised |-> raised, failed |-> failed, found |-> found, result |-> result]
AnyWorld == [World(FALSE, FALSE, FALSE, "ok") EXCEPT !.fixed = FALSE]
Worlds ==
    {World(FALSE, FALSE, FALSE, "ok"), World(FALSE, FALSE, TRUE, "failed"),
     World(FALSE, FALSE, TRUE, "ok"), World(FALSE, TRUE, FALSE, "ok"),
     World(TRUE, FALSE, FALSE, "ok")}

\* sys.argv as main() reads it, and what compile_source has written so far
Environment(script, arg, compile_only, source) ==
    [script |-> script, arg |-> arg, compile_only |-> compile_only, source |-> source,
     c_written |-> FALSE, exe_written |-> FALSE, error_msg |-> "", world |-> AnyWorld]
NoEnvironment == Environment("", "none", FALSE, NoSource)

source_file == "t.oberon"
\* os.path.join(self.output_dir, source_filename + '.c'), and the executable
c_filename == "output/t.c"
exe_filename == "output/t"

DrvUnchanged == <<entry, evalVars, otherVars>>

\* main() up to the call of compile_file: the usage, help, version and GUI
\* commands, the existence test, and the import and construction of Compiler.
\* An import that fails leaves main() as an uncaught exception: status 1.
Main ==
    /\ drv = "main"
    /\ \E exists \in BOOLEAN, loaded \in BOOLEAN, gui_main \in {"closed", "ImportError", "Exception"} :
         LET status ==
               CASE env.arg = "none" -> IF env.script = "oberon.py" THEN 1 ELSE 0
                 [] env.arg \in {"help", "version"} -> 0
                 [] env.arg = "gui" -> IF gui_main = "closed" THEN 0 ELSE 1
                 [] env.arg = "file" /\ ~exists -> 1
                 [] env.arg = "file" /\ exists /\ ~loaded -> 1
                 [] OTHER -> -1
         IN /\ exit_status' = status
            /\ drv' = IF status = -1 THEN "compile_file" ELSE "exited"
    /\ UNCHANGED <<DrvUnchanged, program, analysis, env, messages, exe_path, trail>>

\* compile_source returns (messages, exe_path)
Returns(msgs, path) ==
    /\ messages' = msgs
    /\ exe_path' = path
    /\ drv' = "returned"

\* compile_source goes on to the next stage
GoesOn(stage) ==
    /\ drv' = stage
    /\ UNCHANGED <<messages, exe_path>>

\* compile_file, lines 26-34: read the file, then compile_source
CompileFile ==
    /\ drv = "compile_file"
    /\ \E read \in {"ok", "FileNotFoundError", "Exception"} :
         CASE read = "FileNotFoundError" ->
                Returns(<<"Error: File '" \o source_file \o "' not found">>, "")
           [] read = "Exception" ->
                Returns(<<"Error reading file: [Errno 13] Permission denied: '"
                          \o source_file \o "'">>, "")
           [] OTHER -> GoesOn("tokenize")
    /\ UNCHANGED <<DrvUnchanged, program, analysis, env, exit_status, trail>>

\* compile_source, lines 39-40 and 122-124
Tokenize ==
    /\ drv = "tokenize"
    /\ trail' = Append(trail, "lex")
    /\ IF env.source.lex # ""
       THEN Returns(<<"Compilation error: " \o env.source.lex>>, "")
       ELSE GoesOn("parse")
    /\ UNCHANGED <<DrvUnchanged, program, analysis, env, exit_status>>

\* compile_source, lines 41-42 and 122-124
Parse ==
    /\ drv = "parse"
    /\ trail' = Append(trail, "parse")
    /\ IF env.source.parse # ""
       THEN /\ Returns(<<"Compilation error: " \o env.source.parse>>, "")
            /\ UNCHANGED program
       ELSE /\ GoesOn("analyze")
            /\ program' = env.source.ast
    /\ UNCHANGED <<DrvUnchanged, analysis, env, exit_status>>

\* has_errors with the test of the diagnostics left out
has_errors_ignored(errors) == FALSE

\* line 46: `if errors`
has_errors(errors) == errors # <<>>

\* compile_source, lines 44-47
CompileSourceAnalyze ==
    /\ drv = "analyze"
    /\ trail' = Append(trail, "analyze")
    /\ LET semantic == analyze(program)
       IN /\ analysis' = semantic
          /\ IF has_errors(semantic.errors)
             THEN Returns([j \in 1 .. Len(semantic.errors) |->
                              "Semantic error: " \o semantic.errors[j]], "")
             ELSE GoesOn("emit")
    /\ UNCHANGED <<DrvUnchanged, program, env, exit_status>>

\* compile_source, lines 50-51 and 122-124: CEmitter().emit_program(ast)
Emit ==
    /\ drv = "emit"
    /\ trail' = Append(trail, "emit")
    /\ \E raised \in BOOLEAN :
         /\ env.world.fixed => raised = env.world.raised
         /\ IF raised THEN Returns(<<"Compilation error: emit_program">>, "")
            ELSE GoesOn("write")
    /\ UNCHANGED <<DrvUnchanged, program, analysis, env, exit_status>>

\* compile_source, lines 52-60: write the C file; without build_native that is all
WriteCFile ==
    /\ drv = "write"
    /\ trail' = Append(trail, "write")
    /\ \E failed \in BOOLEAN :
         /\ env.world.fixed => failed = env.world.failed
         /\ IF failed
            THEN /\ Returns(<<"Error writing C file: [Errno 13] Permission denied: '"
                              \o c_filename \o "'">>, "")
                 /\ UNCHANGED env
            ELSE /\ env' = [env EXCEPT !.c_written = TRUE]
                 /\ IF env.compile_only
                    THEN Returns(<<"Wrote C code to " \o c_filename>>, "")
                    ELSE GoesOn("find_gcc")
    /\ UNCHANGED <<DrvUnchanged, program, analysis, exit_status>>

\* compile_source, lines 62-81: look for gcc, then cc; without one the
\* evaluator runs the program
FindGcc ==
    /\ drv = "find_gcc"
    /\ \E found \in BOOLEAN :
         /\ env.world.fixed => found = env.world.found
         /\ IF found THEN /\ GoesOn("run_gcc")
                          /\ UNCHANGED env
            ELSE /\ GoesOn("interpreter")
                 /\ env' = [env EXCEPT !.error_msg =
                               "'gcc' not found. Running in interpreter mode."]
    /\ UNCHANGED <<DrvUnchanged, program, analysis, exit_status, trail>>

\* compile_source, lines 90-120: run the C compiler; when it fails the
\* evaluator runs the program
RunGcc ==
    /\ drv = "run_gcc"
    /\ trail' = Append(trail, "gcc")
    /\ \E result \in {"ok", "failed", "stderr", "exception"} :
         /\ env.world.fixed => result = env.world.result
         /\ CASE result = "ok" ->
                /\ Returns(<<"Wrote C code to " \o c_filename,
                             "Successfully created executable: " \o exe_filename>>, exe_filename)
                /\ env' = [env EXCEPT !.exe_written = TRUE]
           [] result = "exception" ->
                /\ Returns(<<"C code written to " \o c_filename,
                             "Error during compilation: [Errno 8] Exec format error">>, "")
                /\ UNCHANGED env
           [] OTHER ->
                /\ GoesOn("interpreter")
                /\ env' = [env EXCEPT !.error_msg =
                              IF result = "stderr" THEN "GCC error:\nt.c:1: error"
                              ELSE "GCC compilation failed"]
    /\ UNCHANGED <<DrvUnchanged, program, analysis, exit_status>>

\* the evaluator of the call before, used again
Interpreter_kept(st) == st

\* Interpreter.__init__: a new global scope, no procedures, no output; what
\* the evaluator of an earlier call held is out of reach
Interpreter_init(st) ==
    [st EXCEPT !.scopes = <<Scope(0)>>, !.syms = <<>>, !.lists = <<>>, !.cur = 1,
               !.procedures = <<>>, !.output = <<>>]

\* lines 84-85 and 113-114: a new Interpreter is made and interpret(ast) called
RunInterpreter ==
    /\ drv = "interpreter"
    /\ trail' = Append(trail, "interpret")
    /\ GoesOn("interpreting")
    /\ scopes' = Interpreter_init(St).scopes
    /\ syms' = Interpreter_init(St).syms
    /\ lists' = Interpreter_init(St).lists
    /\ current_scope' = Interpreter_init(St).cur
    /\ procedures' = Interpreter_init(St).procedures
    /\ output' = Interpreter_init(St).output
    /\ pc' = "idle"
    /\ stack' = <<>>
    /\ exc' = NoExc
    /\ log' = <<>>
    /\ UNCHANGED <<entry, otherVars, program, analysis, env, exit_status>>

gcc_not_found == env.error_msg = "'gcc' not found. Running in interpreter mode."

\* lines 86 and 115: interpret returned its output
InterpreterReturned ==
    /\ drv = "interpreting"
    /\ pc = "done"
    /\ Returns(IF gcc_not_found
               THEN <<"C code written to " \o c_filename, env.error_msg>> \o output
               ELSE <<"C code written to " \o c_filename, env.error_msg,
                      "Falling back to Python interpreter mode...">> \o output, "")
    /\ UNCHANGED <<DrvUnchanged, program, analysis, env, exit_status, trail>>

\* the message list returned when interpret raised e
interpreter_error(e) ==
    IF gcc_not_found
    THEN <<"C code written to " \o c_filename, "Interpreter error: " \o e.msg>>
    ELSE <<"C code written to " \o c_filename, env.error_msg, "Interpreter error: " \o e.msg>>

\* lines 87-88 and 116-117: interpret raised
InterpreterRaised ==
    /\ drv = "interpreting"
    /\ pc = "error"
    /\ Returns(interpreter_error(exc), "")
    /\ UNCHANGED <<DrvUnchanged, program, analysis, env, exit_status, trail>>

\* main() after compile_file: the messages are printed and the process exits
Exit ==
    /\ entry = "main"
    /\ drv = "returned"
    /\ exit_status' = IF exe_path # "" THEN 0
                      ELSE IF env.compile_only THEN 0
                      ELSE 0
    /\ drv' = "exited"
    /\ UNCHANGED <<DrvUnchanged, program, analysis, env, messages, exe_path, trail>>

(***************************************************************************)
(* The programs the analyzer is run on and the sources the driver is run   *)
(* on.                                                                     *)
(***************************************************************************)
\* a module with any of three independent semantic errors: x declared twice,
\* a STRING assigned to the INTEGER x, a call of the undefined procedure Foo
FaultProgram(redeclared, mistyped, undefined) ==
    Program("T",
            <<VarDeclaration("x", "INTEGER", <<>>)>>
            \o (IF redeclared THEN <<VarDeclaration("x", "INTEGER", <<>>)>> ELSE <<>>),
            <<Assignment(Name("x"), IF mistyped THEN StrLit("s") ELSE IntLit(1))>>
            \o (IF undefined THEN <<ProcedureCall("Foo", <<>>)>> ELSE <<>>)
            \o <<Write(Variable("x"))>>)
FaultText(redeclared, mistyped, undefined) ==
    "MODULE T; VAR x: INTEGER; " \o (IF redeclared THEN "x: INTEGER; " ELSE "")
    \o "BEGIN x := " \o (IF mistyped THEN "\"s\"" ELSE "1") \o "; "
    \o (IF undefined THEN "Foo(); " ELSE "") \o "Write(x); END T."
FaultPrograms ==
    {FaultProgram(r, m, u) : r \in BOOLEAN, m \in BOOLEAN, u \in BOOLEAN}

\* a procedure with a local variable, as the parser builds it
ParsedLocalProgram ==
    Program("T",
            <<VarDeclaration("k", "INTEGER", <<>>),
              ProcedureDeclaration("Q", <<Parameter("p", "INTEGER", FALSE)>>, "",
                  <<DeclarationList(<<VarDeclaration("l", "INTEGER", <<>>)>>)>>,
                  <<Assignment(Name("k"), Add(Variable("p"), IntLit(1)))>>)>>,
            <<ProcedureCall("Q", <<IntLit(2)>>), Write(Variable("k"))>>)

DivisionSource(operator) ==
    Source("MODULE T; VAR x: INTEGER; BEGIN Write(1); x := 3 " \o operator
           \o " 0; Write(x); END T.", "", "",
           Program("T", <<VarDeclaration("x", "INTEGER", <<>>)>>,
                   <<Write(IntLit(1)),
                     Assignment(Name("x"), BinaryExpression(IntLit(3), operator, IntLit(0))),
                     Write(Variable("x"))>>))

Sources ==
    {Source(FaultText(r, m, u), "", "", FaultProgram(r, m, u)) :
        r \in BOOLEAN, m \in BOOLEAN, u \in BOOLEAN}
    \cup {DivisionSource(operator) : operator \in {"/", "DIV", "MOD"}}
    \cup {Source("MODULE T; VAR k: INTEGER; PROCEDURE Q(p: INTEGER); VAR l: INTEGER; "
                 \o "BEGIN k := p + 1; END Q; BEGIN Q(2); Write(k); END T.",
                 "", "", ParsedLocalProgram),
          Source("MODULE T; BEGIN Write(1 $ 2); END T.",
                 "Unexpected character '$' at line 1, column 30", "", NoProgram),
          Source("MODULE T; BEGIN Write(\"abc); END T.",
                 "Unterminated string at line 1, column 40", "", NoProgram),
          Source("MODULE T; BEGIN Write(1; END T.", "", "Expected ), got ;", NoProgram),
          Source("MODULE T; VAR a: ARRAY [2] OF INTEGER; BEGIN Write(1); END T.",
                 "", "object of type 'int' has no len()", NoProgram)}

\* the sources of a process that compiles more than once: one that compiles
\* and runs, one with a semantic error, one that fails in the evaluator
SessionSources ==
    {Source(FaultText(FALSE, FALSE, FALSE), "", "", FaultProgram(FALSE, FALSE, FALSE)),
     Source(FaultText(TRUE, FALSE, FALSE), "", "", FaultProgram(TRUE, FALSE, FALSE)),
     DivisionSource("DIV")}

\* CEmitter.__init__, and the text that emit_program returns as what decides
\* it: the tree and what the object held when it was called
CEmitter == [code |-> <<>>, indent_level |-> 0, variables |-> <<>>]
c_code(emitter_object, ast) ==
    [ast |-> ast, indent_level |-> emitter_object.indent_level,
     variables |-> emitter_object.variables]
NoCode == c_code(CEmitter, NoProgram)

\* what a call of compile_source leaves: the source it was given, the pair it
\* returned and the files it wrote
Run ==
    [source |-> env.source.text, messages |-> messages, exe_path |-> exe_path,
     c_file |-> IF env.c_written THEN c_code(CEmitter, program) ELSE NoCode,
     exe_written |-> env.exe_written]

\* the number of compile_source calls of one process
MaxRuns == 3

\* compiler.compile_source(source) once more on the same Compiler object: the
\* locals of the call are new
CompileAgain ==
    /\ entry = "session"
    /\ drv = "returned"
    /\ Len(runs) + 1 < MaxRuns
    /\ runs' = Append(runs, Run)
    /\ \E source \in SessionSources :
          env' = [env EXCEPT !.source = source, !.c_written = FALSE, !.exe_written = FALSE,
                             !.error_msg = ""]
    /\ drv' = "tokenize"
    /\ program' = NoProgram
    /\ analysis' = AnalyzerReset
    /\ messages' = <<>>
    /\ exe_path' = ""
    /\ trail' = <<>>
    /\ UNCHANGED <<entry, evalVars, lexer, emitVars, exit_status, gui>>

\* Write(l op r) for an arithmetic operator and operands of either numeric type
ArithmeticOperators == {"+", "-", "*", "/", "DIV", "MOD"}
ArithmeticProgram(L, operator, R) ==
    Program("T", <<>>,
            <<Write(BinaryExpression(LeftOperand(L), operator, RightOperand(R)))>>)
ArithmeticPrograms ==
    {ArithmeticProgram(L, operator, R) :
        L \in {"INTEGER", "REAL"}, operator \in ArithmeticOperators, R \in {"INTEGER", "REAL"}}

\* VAR a: ARRAY 2 OF T; v: U with one statement on the element a[0]: it is
\* assigned to v, written as an operand of +, or assigned a literal of type U
LiteralOf(T) ==
    CASE T = "REAL" -> RealLit(3, 2) [] T = "STRING" -> StrLit("s") [] OTHER -> IntLit(1)
ElementProgram(T, U, statement) ==
    Program("T", <<VarDeclaration("a", T, <<2>>), VarDeclaration("v", U, <<>>)>>, <<statement>>)
ElementReadProgram(T, U) ==
    ElementProgram(T, U, Assignment(Name("v"), ArrayAccess("a", <<IntLit(0)>>)))
ElementOperandProgram(T) ==
    ElementProgram(T, T, Write(Add(ArrayAccess("a", <<IntLit(0)>>), LiteralOf(T))))
ElementWriteProgram(T, U) ==
    ElementProgram(T, U, Assignment(ArrayAccess("a", <<IntLit(0)>>), LiteralOf(U)))
ElementPrograms ==
    {ElementReadProgram(T, U) : T \in Types, U \in Types}
    \cup {ElementOperandProgram(T) : T \in Types}
    \cup {ElementWriteProgram(T, U) : T \in Types, U \in Types}

\* a procedure P that calls the procedure Q or assigns the global g, with Q or g
\* declared before P ("backward") or after it ("forward")
ReferenceProgram(order, kind) ==
    LET P == ProcedureDeclaration("P", <<>>, "", <<>>,
                <<IF kind = "call" THEN ProcedureCall("Q", <<>>)
                  ELSE Assignment(Name("g"), IntLit(1))>>)
        referred == IF kind = "call"
                    THEN ProcedureDeclaration("Q", <<>>, "", <<>>, <<Write(IntLit(1))>>)
                    ELSE VarDeclaration("g", "INTEGER", <<>>)
    IN Program("T", IF order = "forward" THEN <<P, referred>> ELSE <<referred, P>>,
               <<ProcedureCall("P", <<>>)>>)
ReferencePrograms ==
    {ReferenceProgram(order, kind) : order \in {"forward", "backward"}, kind \in {"call", "global"}}

\* FOR v := s TO e DO Write(v) END with v declared of type V, as an array, or
\* not at all, and literal bounds of the types S and E
LoopVariables == Types \cup {"ARRAY", "undefined"}
ForTypeProgram(V, S, E) ==
    Program("T",
            CASE V = "undefined" -> <<>>
              [] V = "ARRAY" -> <<VarDeclaration("v", "INTEGER", <<2>>)>>
              [] OTHER -> <<VarDeclaration("v", V, <<>>)>>,
            <<ForStatement("v", LiteralOf(S), LiteralOf(E), Write(Variable("v")))>>)
ForTypePrograms == {ForTypeProgram(V, S, E) : V \in LoopVariables, S \in Types, E \in Types}

\* c declared by CONST or by VAR and one assignment to c or to c[0]: at module
\* level, in a procedure, or in a procedure whose parameter c hides the global;
\* plain, after a Write, in the ELSE branch of an IF, or in the body of a WHILE
ConstProgram(declared, target, place, wrap) ==
    LET assignment == Assignment(IF target = "element" THEN ArrayAccess("c", <<IntLit(0)>>)
                                 ELSE Name("c"), IntLit(2))
        statements == CASE wrap = "second" -> <<Write(IntLit(1)), assignment>>
                        [] wrap = "if" -> <<IfStatement(IntLit(0), Write(IntLit(1)), <<assignment>>)>>
                        [] wrap = "while" -> <<WhileStatement(IntLit(0), assignment)>>
                        [] OTHER -> <<assignment>>
        c == IF declared = "CONST" THEN ConstDeclaration("c", IntLit(1))
             ELSE VarDeclaration("c", "INTEGER", <<>>)
        P == ProcedureDeclaration("P",
                IF place = "shadowed" THEN <<Parameter("c", "INTEGER", FALSE)>> ELSE <<>>,
                "", <<>>, statements)
    IN IF place = "module" THEN Program("T", <<c>>, statements)
       ELSE Program("T", <<c, P>>, <<Write(IntLit(1))>>)
ConstPrograms ==
    {ConstProgram(declared, target, place, wrap) :
        declared \in {"CONST", "VAR"}, target \in {"name", "element"},
        place \in {"module", "procedure", "shadowed"},
        wrap \in {"plain", "second", "if", "while"}}

\* x declared twice in one scope, first as INTEGER and then as REAL: two
\* variables or a constant and a variable of the module, two parameters of P,
\* two locals of P, a parameter and a local of P (the locals as the parser
\* builds them, one nested list for each VAR section)
DuplicateKinds == {"variables", "constant", "parameters", "locals", "parameter_local"}
DuplicateProgram(kind) ==
    LET first == VarDeclaration("x", "INTEGER", <<>>)
        second == VarDeclaration("x", "REAL", <<>>)
        P(parameters, locals) ==
            ProcedureDeclaration("P", parameters, "", locals, <<Write(IntLit(1))>>)
    IN Program("T",
               CASE kind = "variables" -> <<first, second>>
                 [] kind = "constant" -> <<ConstDeclaration("x", IntLit(1)), second>>
                 [] kind = "parameters" ->
                      <<P(<<Parameter("x", "INTEGER", FALSE), Parameter("x", "REAL", FALSE)>>,
                          <<>>)>>
                 [] kind = "locals" -> <<P(<<>>, <<DeclarationList(<<first, second>>)>>)>>
                 [] OTHER -> <<P(<<Parameter("x", "INTEGER", FALSE)>>,
                                 <<DeclarationList(<<second>>)>>)>>,
               <<Write(IntLit(1))>>)
\* the INTEGER x of the module and the REAL parameter x of P, each assigned a
\* literal of its own type where it is visible
ShadowProgram ==
    Program("T",
            <<VarDeclaration("x", "INTEGER", <<>>),
              ProcedureDeclaration("P", <<Parameter("x", "REAL", FALSE)>>, "", <<>>,
                                   <<Assignment(Name("x"), RealLit(3, 2))>>)>>,
            <<Assignment(Name("x"), IntLit(1))>>)
ScopePrograms == {DuplicateProgram(kind) : kind \in DuplicateKinds} \cup {ShadowProgram}

AnalyzePrograms ==
    FaultPrograms \cup {ParsedLocalProgram} \cup EvalPrograms \cup ArithmeticPrograms
    \cup ElementPrograms \cup ReferencePrograms \cup ForTypePrograms
    \cup ConstPrograms \cup ScopePrograms


(***************************************************************************)
(* lexer.py: Lexer.  The source is a sequence of characters; position is   *)
(* the 0-based index of the code, so that source[position] of the code is  *)
(* source[position + 1] here.  One step of the model is one turn of the    *)
(* loop of tokenize.                                                       *)
(***************************************************************************)
Letters == {"a", "b"}
Digits == {"0", "1"}
Spaces == {" ", "\n"}
Keywords ==
    {"MODULE", "BEGIN", "END", "CONST", "VAR", "PROCEDURE", "IF", "THEN", "ELSE", "WHILE",
     "DO", "FOR", "TO", "INTEGER", "REAL", "STRING", "ARRAY", "OF", "DIV", "MOD", "AND", "OR"}

Token(type, value, line, column) ==
    [type |-> type, value |-> value, line |-> line, column |-> column]

\* Lexer.__init__
Lexer(source) ==
    [source |-> source, position |-> 0, line |-> 1, column |-> 1, tokens |-> <<>>,
     exc |-> NoExc, at |-> "tokenize"]

\* position + offset < len(source), and source[position + offset]
Within(lx, offset) == lx.position + offset < Len(lx.source)
CharAt(lx, offset) == lx.source[lx.position + offset + 1]
Is(lx, offset, c) == Within(lx, offset) /\ CharAt(lx, offset) = c

\* source[start:stop] as a string
RECURSIVE Slice(_, _, _)
Slice(source, start, stop) ==
    IF start >= stop \/ start >= Len(source) THEN ""
    ELSE source[start + 1] \o Slice(source, start + 1, stop)

\* source[start:stop].upper(), for the letters of the model
UpperCharacter(c) == CASE c = "a" -> "A" [] c = "b" -> "B" [] OTHER -> c
RECURSIVE UpperSlice(_, _, _)
UpperSlice(source, start, stop) ==
    IF start >= stop \/ start >= Len(source) THEN ""
    ELSE UpperCharacter(source[start + 1]) \o UpperSlice(source, start + 1, stop)

advance(lx) ==
    IF lx.position < Len(lx.source)
    THEN [lx EXCEPT !.position = @ + 1, !.column = @ + 1]
    ELSE lx

peek(lx) == IF Within(lx, 1) THEN CharAt(lx, 1) ELSE ""

add_token(lx, type, value) ==
    [lx EXCEPT !.tokens = Append(@, Token(type, value, lx.line, lx.column))]

\* if source[position] == '\n': line += 1; column = 1
count_line(lx) ==
    IF CharAt(lx, 0) = "\n" THEN [lx EXCEPT !.line = @ + 1, !.column = 1] ELSE lx

\* the inner loop of skip_whitespace: up to and over the end of the comment, or
\* to the end of the source
RECURSIVE skip_comment(_)
skip_comment(lx) ==
    IF ~Within(lx, 0) THEN lx
    ELSE IF Is(lx, 0, "*") /\ Is(lx, 1, ")") THEN advance(advance(lx))
    ELSE skip_comment(advance(count_line(lx)))

RECURSIVE skip_whitespace(_)
skip_whitespace(lx) ==
    IF ~Within(lx, 0) THEN lx
    ELSE IF CharAt(lx, 0) \in Spaces THEN skip_whitespace(advance(count_line(lx)))
    ELSE IF Is(lx, 0, "(") /\ Is(lx, 1, "*")
    THEN skip_whitespace(skip_comment(advance(advance(lx))))
    ELSE lx

\* while position < len(source) and source[position] in S: advance()
RECURSIVE advance_over(_, _)
advance_over(lx, S) ==
    IF Within(lx, 0) /\ CharAt(lx, 0) \in S THEN advance_over(advance(lx), S) ELSE lx

\* self.position -= 1: the column is not moved back
back_up(lx) == [lx EXCEPT !.position = @ - 1]

\* the token from start to the position reached: an identifier or a keyword
identifier_token(lx, start) ==
    add_token(lx, IF UpperSlice(lx.source, start, lx.position) \in Keywords
                  THEN UpperSlice(lx.source, start, lx.position) ELSE "IDENTIFIER",
              Slice(lx.source, start, lx.position))

read_identifier(lx) ==
    back_up(identifier_token(advance_over(lx, Letters \cup Digits \cup {"_"}), lx.position))

\* the digits read, lx is at what follows them: a fraction or not
number_token(lx, start) ==
    IF Is(lx, 0, ".")
    THEN add_token(advance_over(advance(lx), Digits), "REAL_LITERAL",
                   Slice(lx.source, start, advance_over(advance(lx), Digits).position))
    ELSE add_token(lx, "INTEGER_LITERAL", Slice(lx.source, start, lx.position))

read_number(lx) == back_up(number_token(advance_over(lx, Digits), lx.position))

\* the opening quote skipped, lx is at the closing quote or at the end
string_token(lx, start) ==
    IF ~Within(lx, 0)
    THEN Raise(lx, "SyntaxError",
               "Unterminated string at line " \o StrInt(lx.line)
               \o ", column " \o StrInt(lx.column))
    ELSE add_token(lx, "STRING_LITERAL", Slice(lx.source, start, lx.position))

\* every character but the quote
NotQuote(lx) == {lx.source[j] : j \in 1 .. Len(lx.source)} \ {"\""}

read_string(lx) == string_token(advance_over(advance(lx), NotQuote(lx)), lx.position + 1)

\* the type of the token that is one character long
SingleCharacter(c) ==
    CASE c = "#" -> "NOT_EQUAL" [] c = "+" -> "PLUS" [] c = "-" -> "MINUS"
      [] c = "*" -> "MULTIPLY" [] c = "/" -> "DIVIDE" [] c = "=" -> "EQUAL"
      [] c = ";" -> "SEMICOLON" [] c = "," -> "COMMA" [] c = "(" -> "LPAREN"
      [] c = ")" -> "RPAREN" [] c = "[" -> "LBRACKET" [] c = "]" -> "RBRACKET"
      [] c = "." -> "DOT" [] OTHER -> ""

\* c, or c= as one token of the type pair when = follows
with_equal(lx, c, single, pair) ==
    IF peek(lx) = "=" THEN advance(add_token(lx, pair, c \o "=")) ELSE add_token(lx, single, c)

\* the if-chain of tokenize on char = source[position]
classify(lx, char) ==
    IF char \in Letters \cup {"_"} THEN read_identifier(lx)
    ELSE IF char \in Digits THEN read_number(lx)
    ELSE IF char = "\"" THEN read_string(lx)
    ELSE IF char = ":" THEN with_equal(lx, ":", "COLON", "ASSIGN")
    ELSE IF char = "<" THEN with_equal(lx, "<", "LESS", "LESS_EQUAL")
    ELSE IF char = ">" THEN with_equal(lx, ">", "GREATER", "GREATER_EQUAL")
    ELSE IF SingleCharacter(char) # "" THEN add_token(lx, SingleCharacter(char), char)
    ELSE Raise(lx, "SyntaxError",
               "Unexpected character '" \o char \o "' at line " \o StrInt(lx.line)
               \o ", column " \o StrInt(lx.column))

\* the body of the loop of tokenize, after skip_whitespace: break at the end of
\* the source, else one token and advance()
loop_body(lx) ==
    IF ~Within(lx, 0) THEN lx
    ELSE IF Raised(classify(lx, CharAt(lx, 0))) THEN classify(lx, CharAt(lx, 0))
    ELSE advance(classify(lx, CharAt(lx, 0)))

\* one turn of: while self.position < len(self.source)
TokenizeLoop ==
    /\ entry = "tokenize"
    /\ lexer.at = "tokenize"
    /\ ~Raised(lexer)
    /\ Within(lexer, 0)
    /\ lexer' = loop_body(skip_whitespace(lexer))
    /\ UNCHANGED <<entry, program, evalVars, drvVars, emitVars, runs, gui>>

\* the loop left: add_token(EOF, ""); return self.tokens
TokenizeReturn ==
    /\ entry = "tokenize"
    /\ lexer.at = "tokenize"
    /\ ~Raised(lexer)
    /\ ~Within(lexer, 0)
    /\ lexer' = [add_token(lexer, "EOF", "") EXCEPT !.at = "returned"]
    /\ UNCHANGED <<entry, program, evalVars, drvVars, emitVars, runs, gui>>

\* the characters the sources of the lexer are made of, and the sources
MaxSourceLen == 4
Alphabet == {"a", "\n", "\"", "(", "*", ")", "$"}
RECURSIVE Texts(_)
Texts(n) ==
    IF n = 0 THEN {<<>>}
    ELSE Texts(n - 1) \cup {Append(t, c) : t \in Texts(n - 1), c \in Alphabet}
NoLexer == [Lexer(<<>>) EXCEPT !.at = "idle"]

(***************************************************************************)
(* emitter.py: LLVMEmitter.  A line of the IR text is a record: op is the  *)
(* instruction (or "label", "define", "close" and so on for the lines that *)
(* are not instructions), dst the name left of =, type the type written in *)
(* the line, args the operands and name a label, a callee, a predicate or  *)
(* a global.  An operand is the pair (value_repr, llvm_type) that          *)
(* emit_expression returns: repr is the text, constant and value say what  *)
(* number the text of a literal denotes.  A dict is a sequence of          *)
(* key-value pairs in insertion order.                                     *)
(***************************************************************************)
Line(op, dst, type, args, name) ==
    [op |-> op, dst |-> dst, type |-> type, args |-> args, name |-> name]
Reg(repr, type) == [repr |-> repr, type |-> type, constant |-> FALSE, value |-> PyInt(0)]
Constant(repr, type, value) == [repr |-> repr, type |-> type, constant |-> TRUE, value |-> value]

HasKey(dict, key) == \E j \in 1 .. Len(dict) : dict[j].key = key
Get(dict, key) == dict[CHOOSE j \in 1 .. Len(dict) : dict[j].key = key].value
Put(dict, key, value) ==
    IF HasKey(dict, key)
    THEN [j \in 1 .. Len(dict) |-> IF dict[j].key = key THEN [key |-> key, value |-> value]
                                   ELSE dict[j]]
    ELSE Append(dict, [key |-> key, value |-> value])

\* LLVMEmitter.__init__; val is what the last emit_expression returned, args
\* the (reg, type) pairs collected for a call
LLVMEmitter ==
    [lines |-> <<>>, globals |-> <<>>, string_constants |-> <<>>, reg_counter |-> 0,
     label_counter |-> 0, current_locals |-> <<>>, current_local_types |-> <<>>,
     current_arrays |-> <<>>, exc |-> NoExc, val |-> Reg("", ""), args |-> <<>>]

\* new_reg and new_label: the emitter after the call, and the name it returned
new_reg(em) == [em EXCEPT !.reg_counter = @ + 1]
RegName(em) == "%t" \o StrInt(em.reg_counter)
new_label(em) == [em EXCEPT !.label_counter = @ + 1]
LabelName(em, prefix) == prefix \o StrInt(em.label_counter)

emit(em, line) == [em EXCEPT !.lines = Append(@, line)]

\* add_global_string: the emitter after the call, and the name it returned
GlobalName(em, s) ==
    IF HasKey(em.string_constants, s) THEN Get(em.string_constants, s)
    ELSE ".str" \o StrInt(Len(em.string_constants) + 1)
add_global_string(em, s) ==
    IF HasKey(em.string_constants, s) THEN em
    ELSE [em EXCEPT !.string_constants = Put(@, s, GlobalName(em, s)),
                    !.globals = Append(@, Line("global", "@" \o GlobalName(em, s), "", <<>>, s))]

llvm_type(dtype) ==
    CASE dtype = "INTEGER" -> "i32" [] dtype = "REAL" -> "double"
      [] dtype = "STRING" -> "i8*" [] dtype = "ARRAY" -> "i8*" [] OTHER -> "i32"

\* out = self.new_reg(); self.emit(out = op type args); return (out, result)
emit_value(em, op, type, args, name, result) ==
    [emit(new_reg(em), Line(op, RegName(new_reg(em)), type, args, name))
        EXCEPT !.val = Reg(RegName(new_reg(em)), result)]

\* a pointer to the first byte of the global string s
emit_string_pointer(em, s) ==
    emit_value(add_global_string(em, s), "getelementptr", "i8", <<>>,
               "@" \o GlobalName(em, s), "i8*")

\* the operand lists of a call: each argument emitted, (reg, type) collected
RECURSIVE emit_expression(_, _)
RECURSIVE emit_arguments(_, _, _, _)
emit_arguments(em, arguments, j, collected) ==
    IF j > Len(arguments) THEN [em EXCEPT !.val = Reg("", ""), !.args = collected]
    ELSE Then(emit_expression(em, arguments[j]),
              LAMBDA e1 : emit_arguments(e1, arguments, j + 1, Append(collected, e1.val)))

IntegerOperations ==
    <<[key |-> "+", value |-> "add"], [key |-> "-", value |-> "sub"],
      [key |-> "*", value |-> "mul"], [key |-> "/", value |-> "sdiv"],
      [key |-> "DIV", value |-> "sdiv"], [key |-> "MOD", value |-> "srem"],
      [key |-> "AND", value |-> "and"], [key |-> "OR", value |-> "or"]>>
op_map ==
    <<[key |-> "=", value |-> "eq"], [key |-> "#", value |-> "ne"],
      [key |-> "<", value |-> "slt"], [key |-> "<=", value |-> "sle"],
      [key |-> ">", value |-> "sgt"], [key |-> ">=", value |-> "sge"]>>

\* lines 329-374: the instruction for operator on the operands l and r
emit_binary(em, operator, l, r) ==
    IF l.type = "i32" /\ r.type = "i32" /\ HasKey(IntegerOperations, operator)
    THEN emit_value(em, Get(IntegerOperations, operator), "i32", <<l, r>>, "", "i32")
    ELSE IF l.type = "i32" /\ r.type = "i32" /\ HasKey(op_map, operator)
    THEN emit_value(emit_value(em, "icmp", "i32", <<l, r>>, Get(op_map, operator), "i1"),
                    "zext", "i1", <<Reg(RegName(new_reg(em)), "i1")>>, "", "i32")
    ELSE emit_value(em, "add", "i32", <<l, r>>, "", "i32")

emit_expression(em, expr) ==
    CASE expr.node = "Literal" ->
           CASE expr.type = "INTEGER" ->
                  [em EXCEPT !.val = Constant(StrInt(TruncInt(expr.value)), "i32",
                                              PyInt(TruncInt(expr.value)))]
             [] expr.type = "REAL" ->
                  [em EXCEPT !.val = Constant(StrFloat(ToFloat(expr.value).v), "double",
                                              ToFloat(expr.value).v)]
             [] expr.type = "STRING" -> emit_string_pointer(em, expr.value.s)
             [] OTHER -> Raise(em, "TypeError", "cannot unpack non-iterable NoneType object")
      [] expr.node = "Variable" ->
           IF ~HasKey(em.current_locals, expr.name)
           THEN Raise(em, "NameError", "Variable '" \o expr.name \o "' not allocated")
           ELSE IF ~HasKey(em.current_local_types, expr.name)
           THEN Raise(em, "KeyError", "'" \o expr.name \o "'")
           ELSE emit_value(em, "load", Get(em.current_local_types, expr.name),
                           <<Reg(Get(em.current_locals, expr.name),
                                 Get(em.current_local_types, expr.name) \o "*")>>, "",
                           Get(em.current_local_types, expr.name))
      [] expr.node = "ArrayAccess" ->
           IF ~HasKey(em.current_locals, expr.name)
           THEN Raise(em, "NameError", "Array '" \o expr.name \o "' not allocated")
           ELSE IF ~HasKey(em.current_local_types, expr.name)
           THEN Raise(em, "KeyError", "'" \o expr.name \o "'")
           ELSE IF ~expr.has_index
           THEN Raise(em, "NotImplementedError",
                      "Expression emission not implemented for <class 'NoneType'>")
           ELSE Then(emit_expression(em, expr.indices[1]),
                     LAMBDA e1 :
                        emit_value(
                           emit_value(e1, "getelementptr", Get(em.current_local_types, expr.name),
                                      <<Reg(Get(em.current_locals, expr.name),
                                            Get(em.current_local_types, expr.name) \o "*"),
                                        e1.val>>, "",
                                      Get(em.current_local_types, expr.name) \o "*"),
                           "load", Get(em.current_local_types, expr.name),
                           <<Reg(RegName(new_reg(e1)),
                                 Get(em.current_local_types, expr.name) \o "*")>>, "",
                           Get(em.current_local_types, expr.name)))
      [] expr.node = "FunctionCall" ->
           Then(emit_arguments(em, expr.arguments, 1, <<>>),
                LAMBDA e1 : emit_value(e1, "call", "i32", e1.args, "@" \o expr.name, "i32"))
      [] expr.node = "BinaryExpression" ->
           Then(emit_expression(em, expr.left),
                LAMBDA e1 :
                   Then(emit_expression(e1, expr.right),
                        LAMBDA e2 : emit_binary(e2, expr.operator, e1.val, e2.val)))
      [] expr.node = "UnaryExpression" ->
           Then(emit_expression(em, expr.operand),
                LAMBDA e1 :
                   IF expr.operator = "-"
                   THEN emit_value(e1, "sub", "i32",
                                   <<Constant("0", "i32", PyInt(0)), e1.val>>, "", "i32")
                   ELSE e1)
      [] OTHER ->
           Raise(em, "NotImplementedError",
                 "Expression emission not implemented for <class 'ast." \o expr.node \o "'>")

\* the slot of a name: "%" and the name
Slot(name) == "%" \o name

\* lines 160-166: the slot allocated on the fly, and the store into the slot
allocate_on_the_fly(em, name, type) ==
    IF HasKey(em.current_locals, name) THEN em
    ELSE emit([em EXCEPT !.current_locals = Put(@, name, Slot(name))],
              Line("alloca", Slot(name), type, <<>>, ""))
emit_store(em, val, ptr) ==
    emit(em, Line("store", "", val.type, <<val, Reg(ptr, val.type \o "*")>>, ""))

\* lines 167-177: the store into an element; val is the value, e1 the emitter
\* after the index was emitted
emit_element_store(e1, arr, val) ==
    IF ~HasKey(e1.current_locals, arr)
    THEN Raise(e1, "NameError", "Array '" \o arr \o "' not defined for store")
    ELSE emit_store(emit_value(e1, "getelementptr", "i32",
                               <<Reg(Get(e1.current_locals, arr), "i32*"), e1.val>>, "", "i32*"),
                    val, RegName(new_reg(e1)))

\* the format that Write chooses for an argument of the type a_type
fmt_str(a_type) == CASE a_type = "i32" -> "%d" [] a_type = "double" -> "%f" [] OTHER -> "%s"

\* call i32 (i8*, ...) @printf(args)
emit_printf(em, args) == emit(em, Line("call", "", "i32", args, "@printf"))

\* lines 181-193: every argument emitted and printed with its format
RECURSIVE emit_write_arguments(_, _, _)
emit_write_arguments(em, arguments, j) ==
    IF j > Len(arguments) THEN em
    ELSE Then(emit_expression(em, arguments[j]),
              LAMBDA e1 :
                 emit_write_arguments(
                    emit_printf(emit_string_pointer(e1, fmt_str(e1.val.type)),
                                <<emit_string_pointer(e1, fmt_str(e1.val.type)).val, e1.val>>),
                    arguments, j + 1))

\* lines 194-198: the newline of WriteLn
emit_newline(em) ==
    emit_printf(emit_string_pointer(em, "\n"), <<emit_string_pointer(em, "\n").val>>)

\* br label %l and br i1 cond, label %l, label %m
Label(label) == Reg(label, "label")
\* the unconditional branch left out
emit_branch_absent(em, label) == em
emit_branch(em, label) == emit(em, Line("br", "", "", <<Label(label)>>, ""))
emit_conditional(em, cond, then_label, else_label) ==
    emit(em, Line("br", "", "i1", <<cond, Label(then_label), Label(else_label)>>, ""))
emit_label(em, label) == emit(em, Line("label", "", "", <<>>, label))
\* cmp = new_reg(); emit(cmp = icmp ne i32 cond, 0)
emit_test(em, cond) ==
    emit_value(em, "icmp", "i32", <<cond, Constant("0", "i32", PyInt(0))>>, "ne", "i1")

RECURSIVE emit_statement(_, _)
RECURSIVE emit_statements(_, _, _)
emit_statements(em, statements, j) ==
    IF j > Len(statements) THEN em
    ELSE Then(emit_statement(em, statements[j]),
              LAMBDA e1 : emit_statements(e1, statements, j + 1))

\* lines 208-227; the three labels are then, else and endif of three new_label calls
emit_if(em, stmt) ==
    Then(emit_expression(em, stmt.condition),
         LAMBDA e1 :
            Then(emit_statement(
                    emit_label(
                       emit_conditional(new_label(new_label(new_label(emit_test(e1, e1.val)))),
                                        emit_test(e1, e1.val).val,
                                        LabelName(new_label(e1), "then"),
                                        LabelName(new_label(new_label(e1)), "else")),
                       LabelName(new_label(e1), "then")),
                    stmt.then_statement),
                 LAMBDA e2 :
                    Then(IF stmt.else_statement = <<>>
                         THEN emit_label(emit_branch(e2,
                                 LabelName(new_label(new_label(new_label(e1))), "endif")),
                                 LabelName(new_label(new_label(e1)), "else"))
                         ELSE emit_statement(
                                 emit_label(emit_branch(e2,
                                    LabelName(new_label(new_label(new_label(e1))), "endif")),
                                    LabelName(new_label(new_label(e1)), "else")),
                                 stmt.else_statement[1]),
                         LAMBDA e3 :
                            emit_label(emit_branch(e3,
                               LabelName(new_label(new_label(new_label(e1))), "endif")),
                               LabelName(new_label(new_label(new_label(e1))), "endif")))))

\* lines 229-242; em3 is the emitter after the three new_label calls
emit_while(em3, stmt) ==
    Then(emit_expression(
            emit_label(emit_branch(em3, LabelName([em3 EXCEPT !.label_counter = @ - 2],
                                                  "while_start")),
                       LabelName([em3 EXCEPT !.label_counter = @ - 2], "while_start")),
            stmt.condition),
         LAMBDA e1 :
            Then(emit_statement(
                    emit_label(
                       emit_conditional(emit_test(e1, e1.val), emit_test(e1, e1.val).val,
                          LabelName([em3 EXCEPT !.label_counter = @ - 1], "while_body"),
                          LabelName(em3, "while_end")),
                       LabelName([em3 EXCEPT !.label_counter = @ - 1], "while_body")),
                    stmt.statement),
                 LAMBDA e2 :
                    emit_label(emit_branch(e2, LabelName([em3 EXCEPT !.label_counter = @ - 2],
                                                         "while_start")),
                               LabelName(em3, "while_end"))))

\* lines 248-254: the slot of the loop variable, allocated if needed, and the store
\* of the start value
emit_for_start(em, variable, start) ==
    emit(allocate_on_the_fly(em, variable, "i32"),
         Line("store", "", "i32",
              <<start, Reg(Get(allocate_on_the_fly(em, variable, "i32").current_locals, variable),
                           "i32*")>>, ""))

\* lines 255-264: the head of the loop; em3 is the emitter after the three
\* new_label calls, cur the register that holds the loop variable
emit_for_head(em3, ptr, end) ==
    emit_conditional(
       emit_value(
          emit_value(emit_label(emit_branch(em3, LabelName([em3 EXCEPT !.label_counter = @ - 2],
                                                           "for_start")),
                                LabelName([em3 EXCEPT !.label_counter = @ - 2], "for_start")),
                     "load", "i32", <<Reg(ptr, "i32*")>>, "", "i32"),
          "icmp", "i32", <<Reg(RegName(new_reg(em3)), "i32"), end>>, "sle", "i1"),
       Reg(RegName(new_reg(new_reg(em3))), "i1"),
       LabelName([em3 EXCEPT !.label_counter = @ - 1], "for_body"),
       LabelName(em3, "for_end"))

\* lines 267-272: the increment of the value read at the head, and the way back
emit_for_tail(e2, em3, ptr) ==
    emit_label(
       emit_branch(
          emit(emit_value(e2, "add", "i32",
                          <<Reg(RegName(new_reg(em3)), "i32"), Constant("1", "i32", PyInt(1))>>,
                          "", "i32"),
               Line("store", "", "i32", <<Reg(RegName(new_reg(e2)), "i32"), Reg(ptr, "i32*")>>, "")),
          LabelName([em3 EXCEPT !.label_counter = @ - 2], "for_start")),
       LabelName(em3, "for_end"))

\* lines 244-272; e3 is the emitter with the start value stored and the three
\* labels made
emit_for_loop(e3, stmt, ptr, end) ==
    Then(emit_statement(emit_label(emit_for_head(e3, ptr, end),
                                   LabelName([e3 EXCEPT !.label_counter = @ - 1], "for_body")),
                        stmt.statement),
         LAMBDA e4 : emit_for_tail(e4, e3, ptr))

emit_for(em, stmt) ==
    Then(emit_expression(em, stmt.start),
         LAMBDA e1 :
            Then(emit_expression(e1, stmt.end),
                 LAMBDA e2 :
                    emit_for_loop(
                       new_label(new_label(new_label(emit_for_start(e2, stmt.variable, e1.val)))),
                       stmt,
                       Get(allocate_on_the_fly(e2, stmt.variable, "i32").current_locals,
                           stmt.variable),
                       e2.val)))

emit_statement(em, stmt) ==
    CASE stmt.node = "Assignment" ->
           Then(emit_expression(em, stmt.expression),
                LAMBDA e1 :
                   IF stmt.variable.node = "str"
                   THEN emit_store(allocate_on_the_fly(e1, stmt.variable.name, e1.val.type),
                                   e1.val,
                                   Get(allocate_on_the_fly(e1, stmt.variable.name,
                                                           e1.val.type).current_locals,
                                       stmt.variable.name))
                   ELSE IF stmt.variable.node = "ArrayAccess"
                   THEN IF ~stmt.variable.has_index
                        THEN Raise(e1, "NotImplementedError",
                                   "Expression emission not implemented for <class 'NoneType'>")
                        ELSE Then(emit_expression(e1, stmt.variable.indices[1]),
                                  LAMBDA e2 : emit_element_store(e2, stmt.variable.name, e1.val))
                   ELSE e1)
      [] stmt.node = "ProcedureCall" ->
           IF stmt.name \in {"Write", "WriteLn"}
           THEN Then(emit_write_arguments(em, stmt.arguments, 1),
                     LAMBDA e1 : IF stmt.name = "WriteLn" THEN emit_newline(e1) ELSE e1)
           ELSE Then(emit_arguments(em, stmt.arguments, 1, <<>>),
                     LAMBDA e1 : emit(e1, Line("call", "", "void", e1.args, "@" \o stmt.name)))
      [] stmt.node = "IfStatement" -> emit_if(em, stmt)
      [] stmt.node = "WhileStatement" -> emit_while(new_label(new_label(new_label(em))), stmt)
      [] stmt.node = "ForStatement" -> emit_for(em, stmt)
      [] stmt.node = "CompoundStatement" -> emit_statements(em, stmt.statements, 1)
      [] OTHER ->
           Raise(em, "NotImplementedError",
                 "Statement emission not implemented for <class 'ast." \o stmt.node \o "'>")

\* allocate_local: the slot of a top-level variable, with its type
allocate_local(em, name, decl) ==
    emit([em EXCEPT !.current_locals = Put(@, name, Slot(name)),
                    !.current_local_types = Put(@, name, llvm_type(decl.type)),
                    !.current_arrays = IF decl.has_array_size
                                       THEN Put(@, name, decl.array_size) ELSE @],
         Line("alloca", Slot(name), llvm_type(decl.type), <<>>,
              IF decl.has_array_size THEN "align 8" ELSE ""))

\* lines 121-126: a slot for each parameter and the incoming value stored in it
RECURSIVE emit_parameters(_, _, _)
emit_parameters(em, parameters, j) ==
    IF j > Len(parameters) THEN em
    ELSE emit_parameters(
            emit(emit([em EXCEPT !.current_locals =
                                    Put(@, parameters[j].name, Slot(parameters[j].name) \o ".addr")],
                      Line("alloca", Slot(parameters[j].name) \o ".addr",
                           llvm_type(parameters[j].type), <<>>, "")),
                 Line("store", "", llvm_type(parameters[j].type),
                      <<Reg(Slot(parameters[j].name), llvm_type(parameters[j].type)),
                        Reg(Slot(parameters[j].name) \o ".addr",
                            llvm_type(parameters[j].type) \o "*")>>, "")),
            parameters, j + 1)

\* lines 129-133: a slot for each VarDeclaration among proc.declarations
RECURSIVE emit_locals(_, _, _)
emit_locals(em, declarations, j) ==
    IF j > Len(declarations) THEN em
    ELSE emit_locals(
            IF declarations[j].node = "VarDeclaration"
            THEN emit([em EXCEPT !.current_locals =
                                    Put(@, declarations[j].name, Slot(declarations[j].name))],
                      Line("alloca", Slot(declarations[j].name),
                           llvm_type(declarations[j].type), <<>>, ""))
            ELSE em,
            declarations, j + 1)

\* the type in the signature: void for a procedure
ret_type(proc) == IF proc.return_type = "" THEN "void" ELSE llvm_type(proc.return_type)

\* lines 139-154: the return, the closing brace, the locals restored
emit_return(em, proc, old_locals) ==
    [emit(IF proc.return_type = "" THEN emit(em, Line("ret", "", "void", <<>>, ""))
          ELSE IF HasKey(em.current_locals, "result")
          THEN emit(emit_value(em, "load", ret_type(proc),
                               <<Reg(Get(em.current_locals, "result"), ret_type(proc) \o "*")>>,
                               "", ret_type(proc)),
                    Line("ret", "", ret_type(proc),
                         <<Reg(RegName(new_reg(em)), ret_type(proc))>>, ""))
          ELSE emit(em, Line("ret", "", ret_type(proc),
                             <<Constant("0", "i32", PyInt(0))>>, "")),
          Line("close", "", "", <<>>, ""))
       EXCEPT !.current_locals = old_locals]

emit_function(em, proc) ==
    Then(emit_statements(
            emit_locals(
               emit_parameters(
                  [emit(emit(em, Line("define", "@" \o proc.name, ret_type(proc),
                                      [j \in 1 .. Len(proc.parameters) |->
                                          Reg(Slot(proc.parameters[j].name),
                                              llvm_type(proc.parameters[j].type))], "")),
                        Line("label", "", "", <<>>, "entry"))
                     EXCEPT !.current_locals = <<>>],
                  proc.parameters, 1),
               proc.declarations, 1),
            proc.statements, 1),
         LAMBDA e1 : emit_return(e1, proc, em.current_locals))

\* the loops of emit_program over program.declarations
RECURSIVE emit_functions(_, _, _)
emit_functions(em, declarations, j) ==
    IF j > Len(declarations) THEN em
    ELSE Then(IF declarations[j].node = "ProcedureDeclaration"
              THEN emit_function(em, declarations[j]) ELSE em,
              LAMBDA e1 : emit_functions(e1, declarations, j + 1))
RECURSIVE allocate_locals(_, _, _)
allocate_locals(em, declarations, j) ==
    IF j > Len(declarations) THEN em
    ELSE allocate_locals(
            IF declarations[j].node = "VarDeclaration"
            THEN allocate_local(em, declarations[j].name, declarations[j]) ELSE em,
            declarations, j + 1)

\* lines 82-88: ret i32 0, the closing brace, a blank line and the globals
emit_end(em) ==
    [emit(emit(emit(em, Line("ret", "", "i32", <<Constant("0", "i32", PyInt(0))>>, "")),
               Line("close", "", "", <<>>, "")),
          Line("blank", "", "", <<>>, ""))
       EXCEPT !.lines = @ \o em.globals]

\* emit_program: the emitter after the call; lines is the text it returns
emit_program(em, ast) ==
    Then(emit_functions(
            emit(emit(emit(em, Line("comment", "", "", <<>>, "ModuleID")),
                      Line("declare", "@printf", "i32", <<>>, "")),
                 Line("blank", "", "", <<>>, "")),
            ast.declarations, 1),
         LAMBDA e1 :
            Then(emit_statements(
                    allocate_locals(
                       emit(emit(e1, Line("define", "@main", "i32", <<>>, "")),
                            Line("label", "", "", <<>>, "entry")),
                       ast.declarations, 1),
                    ast.statements, 1),
                 LAMBDA e2 : emit_end(e2)))

(***************************************************************************)
(* The IR, lowered and run.  The text is first verified as an LLVM         *)
(* toolchain with typed pointers verifies it: every operand must have the  *)
(* type the instruction writes for it, a name must be defined once in its  *)
(* function and a callee must be defined.  The machine then runs @main     *)
(* one instruction at a time.  A value is a Python int (i32, i1), a Python *)
(* float (double), a Python str (a pointer to a global string) or a        *)
(* Pointer to a cell made by alloca.  The operand values of the model stay *)
(* far from 2^31, so that no i32 operation wraps.                          *)
(***************************************************************************)
Pointer(cell, offset) == [k |-> "ptr", n |-> cell, d |-> offset, s |-> ""]

Instructions ==
    {"alloca", "store", "load", "add", "sub", "mul", "sdiv", "srem", "and", "or", "icmp",
     "zext", "getelementptr", "call", "br", "ret"}

\* the define line and the closing brace of the function that holds line j
FunctionStart(text, j) ==
    CHOOSE k \in 1 .. j :
       text[k].op = "define" /\ \A m \in k + 1 .. j : text[m].op # "define"
FunctionEnd(text, j) ==
    CHOOSE k \in j .. Len(text) :
       text[k].op = "close" /\ \A m \in j .. k - 1 : text[m].op # "close"
InFunction(text, j) ==
    /\ \E k \in 1 .. j : text[k].op = "define"
    /\ \E k \in j .. Len(text) : text[k].op = "close"
    /\ FunctionEnd(text, j) = FunctionEnd(text, FunctionStart(text, j))

\* the type of the value an instruction defines
ResultType(line) ==
    CASE line.op = "alloca" -> line.type \o "*"
      [] line.op = "icmp" -> "i1"
      [] line.op = "zext" -> "i32"
      [] line.op = "getelementptr" -> IF line.name # "" THEN "i8*" ELSE line.type \o "*"
      [] OTHER -> line.type

\* the lines of the function of line j that define the local name repr
Definitions(text, j, repr) ==
    {k \in FunctionStart(text, j) + 1 .. FunctionEnd(text, j) :
        text[k].op \in Instructions /\ text[k].dst = repr}
Parameters(text, j, repr) ==
    {a \in 1 .. Len(text[FunctionStart(text, j)].args) :
        text[FunctionStart(text, j)].args[a].repr = repr}

\* the type of an operand of line j: of a constant the type its text can have,
\* of a name the type of its definition
TypeOf(text, j, operand) ==
    IF operand.constant \/ operand.type = "label" THEN operand.type
    ELSE IF Parameters(text, j, operand.repr) # {}
    THEN text[FunctionStart(text, j)].args[CHOOSE a \in Parameters(text, j, operand.repr) : TRUE].type
    ELSE IF Definitions(text, j, operand.repr) = {} THEN "undefined"
    ELSE ResultType(text[CHOOSE k \in Definitions(text, j, operand.repr) : TRUE])

\* the type that line writes in front of its operand number a
WrittenType(line, a) ==
    CASE line.op \in {"add", "sub", "mul", "sdiv", "srem", "and", "or", "icmp"} -> line.type
      [] line.op = "zext" -> "i1"
      [] line.op = "load" -> line.type \o "*"
      [] line.op = "store" -> IF a = 1 THEN line.type ELSE line.type \o "*"
      [] line.op = "getelementptr" -> IF a = 1 THEN line.type \o "*" ELSE "i32"
      [] line.op = "br" -> IF line.type = "i1" /\ a = 1 THEN "i1" ELSE "label"
      [] line.op = "ret" -> line.type
      [] OTHER -> line.args[a].type

\* the define line of the callee of a call, 0 if there is none
Callee(text, name) ==
    IF \E k \in 1 .. Len(text) : text[k].op = "define" /\ text[k].dst = name
    THEN CHOOSE k \in 1 .. Len(text) : text[k].op = "define" /\ text[k].dst = name
    ELSE 0

\* a call of a function of the module agrees with its signature
CallAgrees(text, line) ==
    \/ line.name = "@printf"
    \/ /\ Callee(text, line.name) # 0
       /\ text[Callee(text, line.name)].type = line.type
       /\ Len(text[Callee(text, line.name)].args) = Len(line.args)
       /\ \A a \in 1 .. Len(line.args) :
             text[Callee(text, line.name)].args[a].type = line.args[a].type

\* a label that a br names is a label of the function
LabelAt(text, j, label) ==
    IF \E k \in FunctionStart(text, j) .. FunctionEnd(text, j) :
          text[k].op = "label" /\ text[k].name = label
    THEN CHOOSE k \in FunctionStart(text, j) .. FunctionEnd(text, j) :
            text[k].op = "label" /\ text[k].name = label
    ELSE 0

\* the verifier on line j
LineVerifies(text, j) ==
    text[j].op \in Instructions =>
       /\ InFunction(text, j)
       /\ \A a \in 1 .. Len(text[j].args) :
             /\ TypeOf(text, j, text[j].args[a]) = WrittenType(text[j], a)
             /\ text[j].args[a].type = "label" => LabelAt(text, j, text[j].args[a].repr) # 0
       /\ text[j].dst # "" => Cardinality(Definitions(text, j, text[j].dst)) = 1
                              /\ Parameters(text, j, text[j].dst) = {}
       /\ text[j].op = "call" => CallAgrees(text, text[j])
       /\ text[j].op = "ret" => text[FunctionStart(text, j)].type = text[j].type
Verifies(text) == \A j \in 1 .. Len(text) : LineVerifies(text, j)

\* the machine before the module is loaded
NoCell == [set |-> FALSE, value |-> PyInt(0)]
Machine ==
    [at |-> "idle", ip |-> 0, regs |-> <<>>, memory |-> <<>>, printed |-> <<>>,
     frames |-> <<>>]

\* a register that is read has been written
Value(m, operand) ==
    IF operand.constant THEN operand.value ELSE Get(m.regs, operand.repr)
Readable(m, line) ==
    \A a \in 1 .. Len(line.args) :
       line.args[a].constant \/ line.args[a].type = "label" \/ HasKey(m.regs, line.args[a].repr)

\* sdiv and srem: the quotient rounded toward zero and its remainder
TruncDiv(a, b) ==
    IF (a < 0) = (b < 0) THEN Abs(a) \div Abs(b) ELSE -(Abs(a) \div Abs(b))
TruncRem(a, b) == a - b * TruncDiv(a, b)

\* and, or of two's complement integers, bit by bit
RECURSIVE BitAnd(_, _)
BitAnd(a, b) ==
    IF a = 0 \/ b = 0 THEN 0
    ELSE (a % 2) * (b % 2) + 2 * BitAnd(a \div 2, b \div 2)
And32(a, b) ==
    CASE a >= 0 /\ b >= 0 -> BitAnd(a, b)
      [] a >= 0 /\ b < 0 -> a - BitAnd(a, -b - 1)
      [] a < 0 /\ b >= 0 -> b - BitAnd(b, -a - 1)
      [] OTHER -> -((-a - 1) + (-b - 1) - BitAnd(-a - 1, -b - 1)) - 1
Or32(a, b) == a + b - And32(a, b)

icmp(predicate, a, b) ==
    CASE predicate = "eq" -> a = b [] predicate = "ne" -> a # b
      [] predicate = "slt" -> a < b [] predicate = "sle" -> a <= b
      [] predicate = "sgt" -> a > b [] OTHER -> a >= b

\* the value of an instruction on two integers
Compute(line, a, b) ==
    CASE line.op = "add" -> PyInt(a + b)
      [] line.op = "sub" -> PyInt(a - b)
      [] line.op = "mul" -> PyInt(a * b)
      [] line.op = "sdiv" -> PyInt(TruncDiv(a, b))
      [] line.op = "srem" -> PyInt(TruncRem(a, b))
      [] line.op = "and" -> PyInt(And32(a, b))
      [] line.op = "or" -> PyInt(Or32(a, b))
      [] OTHER -> PyInt(IF icmp(line.name, a, b) THEN 1 ELSE 0)

\* the string of the global that a getelementptr names
GlobalString(text, name) ==
    text[CHOOSE k \in 1 .. Len(text) : text[k].op = "global" /\ text[k].dst = name].name

\* the cell a pointer points into exists and the pointer is at its start
InBounds(m, p) == p.k = "ptr" /\ p.n \in 1 .. Len(m.memory) /\ p.d = 0

\* the instruction has no defined behaviour in the state m
Undefined(m, line) ==
    \/ ~Readable(m, line)
    \/ /\ line.op \in {"sdiv", "srem"}
       /\ Value(m, line.args[2]).n = 0
    \/ /\ line.op = "load"
       /\ \/ ~InBounds(m, Value(m, line.args[1]))
          \/ ~m.memory[Value(m, line.args[1]).n].set
    \/ /\ line.op = "store"
       /\ ~InBounds(m, Value(m, line.args[2]))

\* the undefined behaviour can stop the process: a division by zero, an access
\* outside a cell
Traps(m, line) ==
    \/ ~Readable(m, line)
    \/ line.op \in {"sdiv", "srem"}
    \/ line.op = "load" /\ ~InBounds(m, Value(m, line.args[1]))
    \/ line.op = "store"

Bind(m, dst, value) == [m EXCEPT !.regs = Put(@, dst, value), !.ip = @ + 1]

\* printf(format) prints the format, printf(format, value) the value
printf(m, line) ==
    [m EXCEPT !.printed = Append(@, IF Len(line.args) = 1 THEN Value(m, line.args[1])
                                    ELSE Value(m, line.args[2])),
              !.ip = @ + 1]

\* a call of a function of the module: a frame for the caller, the arguments
\* bound to the parameters
call(m, text, line) ==
    [m EXCEPT !.frames = Append(@, [ip |-> m.ip, regs |-> m.regs, dst |-> line.dst]),
              !.regs = [a \in 1 .. Len(line.args) |->
                          [key |-> text[Callee(text, line.name)].args[a].repr,
                           value |-> Value(m, line.args[a])]],
              !.ip = Callee(text, line.name) + 1]

\* ret: out of @main the process exits, else back to the caller
ret(m, line) ==
    IF m.frames = <<>> THEN [m EXCEPT !.at = "exited"]
    ELSE [m EXCEPT !.frames = Front(@),
                   !.regs = IF Last(m.frames).dst = "" THEN Last(m.frames).regs
                            ELSE Put(Last(m.frames).regs, Last(m.frames).dst,
                                     Value(m, line.args[1])),
                   !.ip = Last(m.frames).ip + 1]

\* one instruction with defined behaviour
execute(m, text, line) ==
    CASE line.op = "alloca" ->
           Bind([m EXCEPT !.memory = Append(@, NoCell)], line.dst,
                Pointer(Len(m.memory) + 1, 0))
      [] line.op = "store" ->
           [m EXCEPT !.memory[Value(m, line.args[2]).n] =
                        [set |-> TRUE, value |-> Value(m, line.args[1])],
                     !.ip = @ + 1]
      [] line.op = "load" ->
           Bind(m, line.dst, m.memory[Value(m, line.args[1]).n].value)
      [] line.op = "zext" -> Bind(m, line.dst, Value(m, line.args[1]))
      [] line.op = "getelementptr" ->
           IF line.name # "" THEN Bind(m, line.dst, PyStr(GlobalString(text, line.name)))
           ELSE Bind(m, line.dst,
                     Pointer(Value(m, line.args[1]).n,
                             Value(m, line.args[1]).d + Value(m, line.args[2]).n))
      [] line.op = "call" ->
           IF line.name = "@printf" THEN printf(m, line) ELSE call(m, text, line)
      [] line.op = "br" ->
           IF line.type = "i1"
           THEN [m EXCEPT !.ip = LabelAt(text, m.ip,
                                         IF Value(m, line.args[1]).n # 0
                                         THEN line.args[2].repr ELSE line.args[3].repr)]
           ELSE [m EXCEPT !.ip = LabelAt(text, m.ip, line.args[1].repr)]
      [] line.op = "ret" -> ret(m, line)
      [] line.op \in Instructions ->
           Bind(m, line.dst, Compute(line, Value(m, line.args[1]).n, Value(m, line.args[2]).n))
      [] OTHER -> [m EXCEPT !.ip = @ + 1]

\* what an instruction without defined behaviour may leave in its register
UndefinedValues == {PyInt(0), PyInt(1)}

\* text = LLVMEmitter().emit_program(program), after the evaluator has run
EmitProgram ==
    /\ entry = "emit"
    /\ pc \in {"done", "error"}
    /\ machine.at = "idle"
    /\ emitter' = emit_program(LLVMEmitter, program)
    /\ machine' = [machine EXCEPT !.at = IF Raised(emitter') THEN "failed" ELSE "emitted"]
    /\ UNCHANGED <<entry, program, evalVars, drvVars, lexer, runs, gui>>

\* the text is handed to the toolchain: rejected, or started at the first
\* instruction of @main
LoadModule ==
    /\ entry = "emit"
    /\ machine.at = "emitted"
    /\ machine' = IF Verifies(emitter.lines) /\ Callee(emitter.lines, "@main") # 0
                  THEN [machine EXCEPT !.at = "running",
                                       !.ip = Callee(emitter.lines, "@main") + 1]
                  ELSE [machine EXCEPT !.at = "rejected"]
    /\ UNCHANGED <<entry, program, evalVars, drvVars, lexer, emitter, runs, gui>>

\* the instruction at ip, when its behaviour is defined
ExecuteInstruction ==
    /\ entry = "emit"
    /\ machine.at = "running"
    /\ ~Undefined(machine, emitter.lines[machine.ip])
    /\ machine' = execute(machine, emitter.lines, emitter.lines[machine.ip])
    /\ UNCHANGED <<entry, program, evalVars, drvVars, lexer, emitter, runs, gui>>

\* the instruction at ip, when its behaviour is undefined: the process is
\* stopped (not by the load of a cell that was never stored to), or goes on
\* with some value in the register (a store is lost)
ExecuteUndefined ==
    /\ entry = "emit"
    /\ machine.at = "running"
    /\ Undefined(machine, emitter.lines[machine.ip])
    /\ \/ /\ Traps(machine, emitter.lines[machine.ip])
          /\ machine' = [machine EXCEPT !.at = "trapped"]
       \/ \E value \in UndefinedValues :
             machine' = IF emitter.lines[machine.ip].dst = ""
                        THEN [machine EXCEPT !.ip = @ + 1]
                        ELSE Bind(machine, emitter.lines[machine.ip].dst, value)
    /\ UNCHANGED <<entry, program, evalVars, drvVars, lexer, emitter, runs, gui>>

(***************************************************************************)
(* The graphical front end, gui.py.  The main thread runs Tk's event loop: *)
(* it handles the user's clicks and the callbacks that were handed to      *)
(* root.after(0, ...), which Tk runs in the order they were handed over.  *)
(* compile_code and run_code start one daemon thread each; a thread is a   *)
(* record with its position in _compile_thread or _run_thread and the      *)
(* files it has left on the disk so far.  Compiler.compile_file, which     *)
(* returns for every source and raises nothing, is drawn from its three    *)
(* kinds of result, and subprocess.run from its four.                      *)
(***************************************************************************)
MaxClicks == 3        \* the user clicks Compile, Run, Compile & Run at most this often

\* OberonGUI.__init__: nothing is being compiled, no callback, no thread
OberonGUI ==
    [is_compiling |-> FALSE, compile_callback |-> "", events |-> <<>>,
     workers |-> <<>>, clicks |-> 0]

\* threading.Thread(target = ...) once started
Thread(target) ==
    [target |-> target, at |-> "start", files |-> {}, raised |-> FALSE,
     result |-> "", status |-> ""]

\* root.after(0, callback): the callback joins the end of Tk's queue
after(g, callback) == [g EXCEPT !.events = Append(@, callback)]

\* what compile_file can return: messages with an error and no executable,
\* messages of an interpreter run and no executable, or an executable
CompileResults == {"error", "interpreter", "executable"}

\* the files compile_source has written next to the temporary source file
Produced(result) ==
    CASE result = "executable" -> {"c", "exe"}
      [] result = "interpreter" -> {"c"}
      [] OTHER -> {}

\* how subprocess.run([exe_path], timeout=10) can end
RunStatuses == {"exit0", "nonzero", "timeout", "exception"}

\* compile_code without the test of is_compiling
compile_code_unguarded(g, on_finished) ==
    [g EXCEPT !.compile_callback = on_finished,
              !.is_compiling = TRUE,
              !.workers = Append(@, Thread("_compile_thread"))]

\* compile_code(on_finished)
compile_code(g, on_finished) ==
    IF g.is_compiling
    THEN g
    ELSE [g EXCEPT !.compile_callback = on_finished,
                   !.is_compiling = TRUE,
                   !.workers = Append(@, Thread("_compile_thread"))]

\* run_code()
run_code(g) ==
    IF g.is_compiling
    THEN g
    ELSE [g EXCEPT !.is_compiling = TRUE,
                   !.workers = Append(@, Thread("_run_thread"))]

\* compile_and_run()
compile_and_run(g) == compile_code(g, "run_code")

\* _compilation_finished()
compilation_finished(g) == [g EXCEPT !.is_compiling = FALSE]

\* one more click of the user
Clicked(g) == [g EXCEPT !.clicks = @ + 1]

\* the threads that have not returned yet
Active(g) == {i \in 1 .. Len(g.workers) : g.workers[i].at # "ended"}

\* the first statements of a thread, up to the temporary source file: they
\* raise (the outer handler then shows the error) or leave the file behind
thread_start(g, i, raises) ==
    IF raises
    THEN after([g EXCEPT !.workers[i].raised = TRUE, !.workers[i].at = "finish"],
               "_display_error")
    ELSE [g EXCEPT !.workers[i].files = @ \cup {"source"},
                   !.workers[i].at = "compile"]

\* _compile_thread from compile_file to the end of the inner try block
compile_thread_compile(g, i, result) ==
    IF result = "executable" /\ g.compile_callback # ""
    THEN after(after([g EXCEPT !.workers[i].files = @ \cup Produced(result),
                               !.workers[i].result = result,
                               !.workers[i].at = "cleanup"],
                     "_display_compilation_results"),
               g.compile_callback)
    ELSE after([g EXCEPT !.workers[i].files = @ \cup Produced(result),
                         !.workers[i].result = result,
                         !.workers[i].at = "cleanup"],
               "_display_compilation_results")

\* _run_thread from compile_file to the call of the executable
run_thread_compile(g, i, result) ==
    IF result = "executable"
    THEN [g EXCEPT !.workers[i].files = @ \cup Produced(result),
                   !.workers[i].result = result,
                   !.workers[i].at = "execute"]
    ELSE after([g EXCEPT !.workers[i].files = @ \cup Produced(result),
                         !.workers[i].result = result,
                         !.workers[i].at = "cleanup"],
               "_display_compilation_results")

\* _run_thread: subprocess.run and what follows it inside the inner try
run_thread_execute(g, i, status) ==
    IF status \in {"exit0", "nonzero"}
    THEN after([g EXCEPT !.workers[i].files = @ \ {"exe"},
                         !.workers[i].status = status,
                         !.workers[i].at = "cleanup"],
               "_display_program_output")
    ELSE after([g EXCEPT !.workers[i].status = status,
                         !.workers[i].at = "cleanup"],
               "_display_error")

\* the inner finally of both threads: os.unlink(tmp_path)
thread_cleanup(g, i) ==
    [g EXCEPT !.workers[i].files = @ \ {"source"}, !.workers[i].at = "finish"]

\* the outer finally of both threads: root.after(0, self._compilation_finished)
thread_finish(g, i) ==
    after([g EXCEPT !.workers[i].at = "ended"], "_compilation_finished")

\* Tk's event loop runs the callback at the head of its queue
mainloop(g) ==
    CASE Head(g.events) = "_compilation_finished" ->
            compilation_finished([g EXCEPT !.events = Tail(@)])
      [] Head(g.events) = "run_code" -> run_code([g EXCEPT !.events = Tail(@)])
      [] OTHER -> [g EXCEPT !.events = Tail(@)]

\* what the front end leaves alone
GuiUnchanged == <<entry, program, evalVars, drvVars, lexer, emitVars, runs>>

\* the user clicks Compile
CompileCode ==
    /\ entry = "gui"
    /\ gui.clicks < MaxClicks
    /\ gui' = compile_code(Clicked(gui), "")
    /\ UNCHANGED GuiUnchanged

\* the user clicks Run
RunCode ==
    /\ entry = "gui"
    /\ gui.clicks < MaxClicks
    /\ gui' = run_code(Clicked(gui))
    /\ UNCHANGED GuiUnchanged

\* the user clicks Compile & Run
CompileAndRun ==
    /\ entry = "gui"
    /\ gui.clicks < MaxClicks
    /\ gui' = compile_and_run(Clicked(gui))
    /\ UNCHANGED GuiUnchanged

\* the main thread takes the next callback
MainLoop ==
    /\ entry = "gui"
    /\ gui.events # <<>>
    /\ gui' = mainloop(gui)
    /\ UNCHANGED GuiUnchanged

\* a thread begins
ThreadStart ==
    /\ entry = "gui"
    /\ \E i \in Active(gui), raises \in BOOLEAN :
          /\ gui.workers[i].at = "start"
          /\ gui' = thread_start(gui, i, raises)
    /\ UNCHANGED GuiUnchanged

\* the compile thread calls compile_file
CompileThreadCompile ==
    /\ entry = "gui"
    /\ \E i \in Active(gui), result \in CompileResults :
          /\ gui.workers[i].target = "_compile_thread"
          /\ gui.workers[i].at = "compile"
          /\ gui' = compile_thread_compile(gui, i, result)
    /\ UNCHANGED GuiUnchanged

\* the run thread calls compile_file
RunThreadCompile ==
    /\ entry = "gui"
    /\ \E i \in Active(gui), result \in CompileResults :
          /\ gui.workers[i].target = "_run_thread"
          /\ gui.workers[i].at = "compile"
          /\ gui' = run_thread_compile(gui, i, result)
    /\ UNCHANGED GuiUnchanged

\* the run thread runs the executable
RunThreadExecute ==
    /\ entry = "gui"
    /\ \E i \in Active(gui), status \in RunStatuses :
          /\ gui.workers[i].at = "execute"
          /\ gui' = run_thread_execute(gui, i, status)
    /\ UNCHANGED GuiUnchanged

\* a thread removes its temporary source file
ThreadCleanup ==
    /\ entry = "gui"
    /\ \E i \in Active(gui) :
          /\ gui.workers[i].at = "cleanup"
          /\ gui' = thread_cleanup(gui, i)
    /\ UNCHANGED GuiUnchanged

\* a thread hands over _compilation_finished and returns
ThreadFinish ==
    /\ entry = "gui"
    /\ \E i \in Active(gui) :
          /\ gui.workers[i].at = "finish"
          /\ gui' = thread_finish(gui, i)
    /\ UNCHANGED GuiUnchanged

\* a step of some thread
ThreadStep ==
    \/ ThreadStart
    \/ CompileThreadCompile
    \/ RunThreadCompile
    \/ RunThreadExecute
    \/ ThreadCleanup
    \/ ThreadFinish

\* the evaluator before interpret(): Interpreter.__init__
FreshInterpreter ==
    /\ pc = "idle"
    /\ scopes = <<Scope(0)>>
    /\ syms = <<>>
    /\ lists = <<>>
    /\ current_scope = 1
    /\ procedures = <<>>
    /\ output = <<>>
    /\ stack = <<>>
    /\ exc = NoExc
    /\ log = <<>>

\* the driver before main(): SemanticAnalyzer.__init__, nothing returned yet
FreshDriver ==
    /\ analysis = AnalyzerReset
    /\ messages = <<>>
    /\ exe_path = ""
    /\ exit_status = -1
    /\ trail = <<>>

\* Interpreter().interpret(program)
InitEval ==
    /\ entry = "interpret"
    /\ program \in EvalPrograms
    /\ FreshInterpreter
    /\ FreshDriver
    /\ drv = "idle"
    /\ env = NoEnvironment
    /\ lexer = NoLexer
    /\ emitter = LLVMEmitter
    /\ machine = Machine
    /\ runs = <<>>
    /\ gui = OberonGUI

\* SemanticAnalyzer().analyze(program)
InitAnalyze ==
    /\ entry = "analyze"
    /\ program \in AnalyzePrograms
    /\ FreshInterpreter
    /\ FreshDriver
    /\ drv = "idle"
    /\ env = NoEnvironment
    /\ lexer = NoLexer
    /\ emitter = LLVMEmitter
    /\ machine = Machine
    /\ runs = <<>>
    /\ gui = OberonGUI

\* python oberon.py ... and oberon.exe ...
InitMain ==
    /\ entry = "main"
    /\ program = NoProgram
    /\ FreshInterpreter
    /\ FreshDriver
    /\ drv = "main"
    /\ \E script \in {"oberon.py", "oberon_exe.py"}, compile_only \in BOOLEAN :
          \/ \E source \in Sources : env = Environment(script, "file", compile_only, source)
          \/ env = Environment(script, "none", compile_only, NoSource)
          \/ /\ script = "oberon_exe.py"
             /\ \E arg \in {"help", "version", "gui"} :
                   env = Environment(script, arg, compile_only, NoSource)
    /\ lexer = NoLexer
    /\ emitter = LLVMEmitter
    /\ machine = Machine
    /\ runs = <<>>
    /\ gui = OberonGUI

\* Lexer(source).tokenize()
InitTokenize ==
    /\ entry = "tokenize"
    /\ program = NoProgram
    /\ FreshInterpreter
    /\ FreshDriver
    /\ drv = "idle"
    /\ env = NoEnvironment
    /\ \E source \in Texts(MaxSourceLen) : lexer = Lexer(source)
    /\ emitter = LLVMEmitter
    /\ machine = Machine
    /\ runs = <<>>
    /\ gui = OberonGUI

\* Interpreter().interpret(program) and LLVMEmitter().emit_program(program)
InitEmit ==
    /\ entry = "emit"
    /\ program \in EmitPrograms
    /\ FreshInterpreter
    /\ FreshDriver
    /\ drv = "idle"
    /\ env = NoEnvironment
    /\ lexer = NoLexer
    /\ emitter = LLVMEmitter
    /\ machine = Machine
    /\ runs = <<>>
    /\ gui = OberonGUI

\* Compiler().compile_source(source), and again
InitSession ==
    /\ entry = "session"
    /\ program = NoProgram
    /\ FreshInterpreter
    /\ FreshDriver
    /\ drv = "tokenize"
    /\ \E source \in SessionSources, compile_only \in BOOLEAN, world \in Worlds :
          env = [Environment("", "file", compile_only, source) EXCEPT !.world = world]
    /\ lexer = NoLexer
    /\ emitter = LLVMEmitter
    /\ machine = Machine
    /\ runs = <<>>
    /\ gui = OberonGUI

\* OberonGUI(root) and root.mainloop()
InitGui ==
    /\ entry = "gui"
    /\ program = NoProgram
    /\ FreshInterpreter
    /\ FreshDriver
    /\ drv = "idle"
    /\ env = NoEnvironment
    /\ lexer = NoLexer
    /\ emitter = LLVMEmitter
    /\ machine = Machine
    /\ runs = <<>>
    /\ gui = OberonGUI

Init ==
    InitEval \/ InitAnalyze \/ InitMain \/ InitTokenize \/ InitEmit \/ InitSession \/ InitGui

Next ==
    \/ Interpret
    \/ InterpretReturn
    \/ ExecuteAssignment
    \/ ExecuteWrite
    \/ ExecuteWriteLn
    \/ ExecuteUserProcedure
    \/ ProcedureReturn
    \/ ExecuteIf
    \/ ExecuteCompound
    \/ ExecuteWhile
    \/ WhileIterate
    \/ ExecuteFor
    \/ ForIterate
    \/ Analyze
    \/ Main
    \/ CompileFile
    \/ Tokenize
    \/ Parse
    \/ CompileSourceAnalyze
    \/ Emit
    \/ WriteCFile
    \/ FindGcc
    \/ RunGcc
    \/ RunInterpreter
    \/ InterpreterReturned
    \/ InterpreterRaised
    \/ Exit
    \/ TokenizeLoop
    \/ TokenizeReturn
    \/ EmitProgram
    \/ LoadModule
    \/ ExecuteInstruction
    \/ ExecuteUndefined
    \/ CompileAgain
    \/ CompileCode
    \/ RunCode
    \/ CompileAndRun
    \/ MainLoop
    \/ ThreadStart
    \/ CompileThreadCompile
    \/ RunThreadCompile
    \/ RunThreadExecute
    \/ ThreadCleanup
    \/ ThreadFinish

Spec == Init /\ [][Next]_vars

\* the front end alone
GuiNext ==
    \/ CompileCode
    \/ RunCode
    \/ CompileAndRun
    \/ MainLoop
    \/ ThreadStart
    \/ CompileThreadCompile
    \/ RunThreadCompile
    \/ RunThreadExecute
    \/ ThreadCleanup
    \/ ThreadFinish

\* The operating system schedules every started thread until it returns
\* (compile_file returns, subprocess.run is cut off after 10 seconds), and
\* root.mainloop() keeps taking the callbacks handed to root.after.
GuiSpec == InitGui /\ [][GuiNext]_vars /\ WF_vars(ThreadStep) /\ WF_vars(MainLoop)

(***************************************************************************)
(* Reading the log.                                                        *)
(***************************************************************************)
Events(kind) == {j \in 1 .. Len(log) : log[j].ev = kind}
Entered(act) == log[CHOOSE j \in Events("for_enter") : log[j].act = act]

RECURSIVE BodyValuesFrom(_, _)
BodyValuesFrom(act, j) ==
    IF j > Len(log) THEN <<>>
    ELSE (IF log[j].ev = "for_body" /\ log[j].act = act THEN <<log[j].value>> ELSE <<>>)
         \o BodyValuesFrom(act, j + 1)
\* the values the loop variable held at the start of each execution of the body
\* of the act-th FOR statement entered, in order
BodyValues(act) == BodyValuesFrom(act, 1)

IsPrefix(p, q) == Len(p) <= Len(q) /\ \A j \in 1 .. Len(p) : p[j] = q[j]

(***************************************************************************)
(* C1: FOR i := a TO b DO S END executes S exactly max(0, b-a+1) times,    *)
(* with i holding a, a+1, ..., b at the start of the successive            *)
(* executions; a and b are the bounds as evaluated once before the loop.   *)
(* While a loop runs the values seen so far are a prefix of a..b; once it  *)
(* has ended they are all of a..b.  In the programs of ForPrograms the     *)
(* bounds of the first loop are the literal a of the statement and the     *)
(* value b that n held when the loop was entered.                          *)
(***************************************************************************)
C1_ForRange ==
    /\ \A j \in Events("for_enter") :
          IsPrefix(BodyValues(log[j].act), Range(log[j].value, log[j].end))
    /\ \A j \in Events("for_exit") :
          LET e == Entered(log[j].act)
          IN /\ BodyValues(e.act) = Range(e.value, e.end)
             /\ Len(BodyValues(e.act)) = Max(0, e.end - e.value + 1)
    /\ \A j \in Events("for_enter") :
          (program \in ForPrograms /\ log[j].act = 1) =>
              /\ log[j].value = program.statements[2].start.value.n
              /\ log[j].end = program.statements[1].expression.value.n

\* a loop over three values has ended although its body assigned the loop variable
C1_Witness ==
    /\ pc = "done"
    /\ program = ForProgram(1, 3, CompoundStatement(<<Write(Variable("i")),
                                                       Assignment(Name("i"), IntLit(7))>>))
    /\ output = <<"1", "2", "3", "4">>

\* a loop whose start is above its end has ended without running its body
C1_WitnessEmpty ==
    /\ pc = "done"
    /\ \E j \in Events("for_exit") :
          /\ Entered(log[j].act).value > Entered(log[j].act).end
          /\ BodyValues(log[j].act) = <<>>

(***************************************************************************)
(* C2: by-value parameters do not alias the caller.  An assignment inside  *)
(* a procedure to a name defined in the procedure's own scope (its         *)
(* parameter) changes no symbol that any other scope binds; and scenario 5 *)
(* as well as every program of ParamPrograms with a by-value parameter     *)
(* ends with k holding, and writing last, the value it had before the call.*)
(***************************************************************************)
BoundElsewhere(j) ==
    \E sc \in 1 .. Len(scopes) :
        /\ sc # current_scope
        /\ \E m \in 1 .. Len(scopes[sc].symbols) : scopes[sc].symbols[m].sym = j

AssignsOwnParameter ==
    /\ AtStatement
    /\ Cur.node = "Assignment"
    /\ Cur.variable.node = "str"
    /\ current_scope # 1
    /\ InScope(scopes[current_scope], Cur.variable.name)

IsByValueProgram ==
    /\ program \in ParamPrograms
    /\ ~program.declarations[2].parameters[1].is_reference

C2_ByValueNoAlias ==
    /\ [][AssignsOwnParameter =>
            \A j \in 1 .. Len(syms) : BoundElsewhere(j) => syms'[j] = syms[j]]_vars
    /\ []((pc = "done" /\ IsByValueProgram) =>
            /\ syms[SymbolIn(scopes[1], "k")].runtime_value
                 = RuntimeValue(program.statements[1].expression.value, "INTEGER")
            /\ Last(output) = StrInt(program.statements[1].expression.value.n))

\* scenario 5 has run to its end: P has assigned x := x + 1 and returned, k is 5
C2_Witness ==
    /\ pc = "done"
    /\ program = Scenario5
    /\ \E j \in Events("return") : TRUE
    /\ output = <<"5">>

(***************************************************************************)
(* C3: by-reference (VAR) parameters share the caller's cell.  When a call *)
(* P(k) returns, for every parameter x declared VAR whose argument is the  *)
(* variable k, k holds after the return the value x held at the end of the *)
(* body.                                                                   *)
(***************************************************************************)
AtProcedureReturn ==
    /\ pc = "run"
    /\ stack # <<>>
    /\ Top.kind = "stmts" /\ Top.owner = "procedure" /\ Top.idx > Len(Top.statements)

C3_ByReferenceShares ==
    [][AtProcedureReturn =>
         LET procedure == ProcedureOf(procedures, Top.call.name)
         IN \A j \in 1 .. Len(procedure.parameters) :
               (/\ procedure.parameters[j].is_reference
                /\ j <= Len(Top.call.arguments)
                /\ Top.call.arguments[j].node = "Variable") =>
                  syms'[lookup(scopes', Top.old_scope, Top.call.arguments[j].name)].runtime_value
                    = syms[lookup(scopes, current_scope, procedure.parameters[j].name)].runtime_value]_vars

(***************************************************************************)
(* C4: the value of a function call is the value of the callee's `result`  *)
(* after the whole body has been executed in order.  For a function whose  *)
(* body is a sequence of assignments `result := c` of literals, k := F()   *)
(* leaves in k the literal of the last assignment of the body.             *)
(***************************************************************************)
IsResultLiteral(statement) ==
    /\ statement.node = "Assignment"
    /\ statement.variable.node = "str"
    /\ statement.variable.name = "result"
    /\ statement.expression.node = "Literal"

C4_FunctionValue ==
    [][(/\ AtStatement
        /\ Cur.node = "Assignment"
        /\ Cur.variable.node = "str"
        /\ Cur.expression.node = "FunctionCall"
        /\ InProcedures(procedures, Cur.expression.name)
        /\ LET body == ProcedureOf(procedures, Cur.expression.name).statements
           IN body # <<>> /\ \A j \in 1 .. Len(body) : IsResultLiteral(body[j])) =>
         LET body == ProcedureOf(procedures, Cur.expression.name).statements
         IN /\ pc' = "run"
            /\ syms'[lookup(scopes, current_scope, Cur.variable.name)].runtime_value.value
                 = body[Len(body)].expression.value]_vars

(***************************************************************************)
(* C5: every declared variable of non-array type T, module-level or local  *)
(* to a procedure, holds the default of T (0, 0.0, "") before any          *)
(* assignment: when the module body is about to start every module-level   *)
(* variable is bound to its default, and when a procedure body is about to *)
(* start every local variable of the procedure is bound in the procedure's *)
(* scope to its default.                                                   *)
(***************************************************************************)
ClaimedDefault(T) ==
    CASE T = "INTEGER" -> RuntimeValue(PyInt(0), "INTEGER")
      [] T = "REAL" -> RuntimeValue(PyFloat(0, 1), "REAL")
      [] OTHER -> RuntimeValue(PyStr(""), "STRING")

HoldsDefault(sc, declarations) ==
    \A j \in 1 .. Len(declarations) :
        (declarations[j].node = "VarDeclaration" /\ ~declarations[j].has_array_size
         /\ declarations[j].type \in Types) =>
            /\ InScope(scopes[sc], declarations[j].name)
            /\ LET symbol == syms[SymbolIn(scopes[sc], declarations[j].name)]
               IN /\ symbol.has_runtime_value
                  /\ symbol.runtime_value = ClaimedDefault(declarations[j].type)

AtBodyStart(owner) ==
    /\ pc = "run"
    /\ stack # <<>>
    /\ Top.kind = "stmts" /\ Top.owner = owner /\ Top.idx = 1

C5_ModuleDefaults == AtBodyStart("program") => HoldsDefault(1, program.declarations)

C5_Defaults ==
    /\ C5_ModuleDefaults
    /\ AtBodyStart("procedure") =>
          HoldsDefault(current_scope, ProcedureOf(procedures, Top.call.name).declarations)

(***************************************************************************)
(* C6: an array read a[i] or an element assignment a[i] := e whose index   *)
(* is below 0 or at least the declared size of a raises an error, delivers *)
(* no element and leaves every array (and every variable and the output)   *)
(* unchanged; an index inside [0, size) never raises that error: the       *)
(* assignment stores e in element i and nothing else, the read delivers    *)
(* element i.  Stated for the statements a[i] := e, x := a[i] and          *)
(* Write(a[i]) on an array a declared at module level.                     *)
(***************************************************************************)
DeclaredSize(name) ==
    LET ds == program.declarations
    IN ds[CHOOSE j \in 1 .. Len(ds) : ds[j].node = "VarDeclaration" /\ ds[j].name = name].array_size

IsDeclaredArray(name) ==
    /\ \E j \in 1 .. Len(program.declarations) :
          /\ program.declarations[j].node = "VarDeclaration"
          /\ program.declarations[j].name = name
          /\ program.declarations[j].has_array_size
    /\ InScope(scopes[1], name)
    /\ lookup(scopes, current_scope, name) = SymbolIn(scopes[1], name)

\* the array access of the current statement, if it is one of the three forms
AccessOfCur ==
    CASE Cur.node = "Assignment" /\ Cur.variable.node = "ArrayAccess" -> Cur.variable
      [] Cur.node = "Assignment" /\ Cur.expression.node = "ArrayAccess" -> Cur.expression
      [] OTHER -> Cur.arguments[1]

AtArrayAccess ==
    /\ AtStatement
    /\ \/ Cur.node = "Assignment" /\ Cur.variable.node = "ArrayAccess"
          /\ Cur.expression.node = "Literal"
       \/ Cur.node = "Assignment" /\ Cur.variable.node = "str"
          /\ Cur.expression.node = "ArrayAccess"
       \/ Cur.node = "ProcedureCall" /\ Cur.name = "Write" /\ Len(Cur.arguments) = 1
          /\ Cur.arguments[1].node = "ArrayAccess"
    /\ AccessOfCur.has_index
    /\ IsDeclaredArray(AccessOfCur.name)
    /\ ~Raised(evaluate_expression(St, AccessOfCur.indices[1]))
    /\ evaluate_expression(St, AccessOfCur.indices[1]).val.value.k = "int"

DividesByZero ==
    \E operator \in {"/", "DIV", "MOD"}, place \in {"plain", "for", "write", "call"} :
        program = DivisionProgram(operator, 0, place)
SubscriptOutOfBounds ==
    \E T \in {"INTEGER", "STRING"}, size \in 1 .. MaxArraySize, b \in BOOLEAN :
        \E j \in {-1, size, size + 1} :
            program \in {ArrayWriteProgram(T, size, j, b), ArrayReadProgram("INTEGER", size, j, b)}

C7_ErrorAborts ==
    /\ [][exc.class # "" =>
            \/ UNCHANGED <<pc, scopes, syms, lists, current_scope, procedures, output, stack,
                           exc, log>>
            \/ entry = "session" /\ RunInterpreter]_vars
    /\ [](exc.class # "" <=> pc = "error")
    /\ []((entry = "interpret" /\ DividesByZero) =>
            /\ pc # "done"
            /\ pc = "error" => exc.class = "ZeroDivisionError"
            /\ \A j \in 1 .. Len(output) : output[j] \in {"1", "8"})
    /\ []((entry = "interpret" /\ SubscriptOutOfBounds) =>
            /\ pc # "done"
            /\ pc = "error" => exc.class = "IndexError")
    /\ []((entry = "main" /\ drv \in {"returned", "exited"} /\ exc.class # "") =>
            /\ messages # <<>>
            /\ Last(messages) = "Interpreter error: " \o exc.msg)

\* the driver has exited after the evaluator divided by zero: the output stops at
\* the fragment written before, and the message is in the message list
C7_Witness ==
    /\ entry = "main"
    /\ drv = "exited"
    /\ exc.class = "ZeroDivisionError"
    /\ output = <<"1">>
    /\ Last(messages) = "Interpreter error: integer division or modulo by zero"

(***************************************************************************)
(* C8: the analyzer accumulates diagnostics.  For a module with several    *)
(* independent semantic errors (x declared twice, a STRING assigned to the *)
(* INTEGER x, a call of the undefined Foo), analyze returns one diagnostic *)
(* for each of them, all distinct: three for the module with all three.    *)
(***************************************************************************)
Count(b) == IF b THEN 1 ELSE 0
Analyzed == (entry = "analyze" /\ drv = "analyzed") \/ (\E j \in 1 .. Len(trail) : trail[j] = "analyze")

C8_DiagnosticsAccumulate ==
    \A r \in BOOLEAN, m \in BOOLEAN, u \in BOOLEAN :
        (Analyzed /\ program = FaultProgram(r, m, u)) =>
            /\ Len(analysis.errors) = Count(r) + Count(m) + Count(u)
            /\ \A j, h \in 1 .. Len(analysis.errors) :
                  j # h => analysis.errors[j] # analysis.errors[h]

(***************************************************************************)
(* C9: the command-line driver, given a source file, exits with status 0   *)
(* exactly when the run succeeded (analysis was clean, and the artifact    *)
(* was produced or the evaluator completed without a runtime error), and   *)
(* with status 1 when any stage reported a lex, parse, semantic, runtime   *)
(* or I/O error.                                                           *)
(***************************************************************************)
InTrail(stage) == \E j \in 1 .. Len(trail) : trail[j] = stage
Succeeded ==
    /\ InTrail("analyze")
    /\ analysis.errors = <<>>
    /\ \/ env.exe_written
       \/ env.compile_only /\ env.c_written
       \/ pc = "done"

C9_ExitStatus ==
    (entry = "main" /\ drv = "exited" /\ env.arg = "file") =>
        /\ exit_status \in {0, 1}
        /\ exit_status = 0 <=> Succeeded

(***************************************************************************)
(* C10: the driver runs the stages in the order lex, parse, analyze and    *)
(* halts on diagnostics.  The emitter, the C compiler and the evaluator    *)
(* are invoked, and the C file and the executable written, only after      *)
(* lexing and parsing raised nothing and analyze returned an empty list;   *)
(* when one of the three reported an error, compile_source has returned    *)
(* with none of that done.                                                 *)
(***************************************************************************)
Pipeline == <<"lex", "parse", "analyze", "emit", "write">>
BackendRan ==
    \/ InTrail("emit") \/ InTrail("write") \/ InTrail("gcc") \/ InTrail("interpret")
    \/ env.c_written \/ env.exe_written
    \/ pc # "idle"
FrontEndClean ==
    /\ SubSeq(trail, 1, 3) = <<"lex", "parse", "analyze">>
    /\ env.source.lex = "" /\ env.source.parse = ""
    /\ analysis.errors = <<>>

C10_HaltsOnDiagnostics ==
    entry = "main" =>
        /\ \/ IsPrefix(trail, Pipeline)
           \/ trail \in {Pipeline \o <<"gcc">>, Pipeline \o <<"gcc", "interpret">>,
                         Pipeline \o <<"interpret">>}
        /\ BackendRan => FrontEndClean
        /\ (InTrail("lex") /\ env.source.lex # "") => (drv \in {"returned", "exited"} /\ trail = <<"lex">>)
        /\ (InTrail("parse") /\ env.source.parse # "") =>
              (drv \in {"returned", "exited"} /\ trail = <<"lex", "parse">>)
        /\ (InTrail("analyze") /\ analysis.errors # <<>>) =>
              (drv \in {"returned", "exited"} /\ trail = <<"lex", "parse", "analyze">>)

\* compile_source has returned the diagnostics of a module with a semantic error,
\* after lex, parse and analyze and nothing else
C10_Witness ==
    /\ entry = "main"
    /\ drv = "returned"
    /\ analysis.errors # <<>>
    /\ messages # <<>>
    /\ trail = <<"lex", "parse", "analyze">>
    /\ ~env.c_written
    /\ pc = "idle"

(***************************************************************************)
(* C13: the analyzer accepts +, - and * between an INTEGER and a REAL      *)
(* operand in either order and gives the result the type REAL; between two *)
(* INTEGER operands the result is INTEGER (and between two REAL operands   *)
(* REAL).                                                                  *)
(***************************************************************************)
NumericTypes == {"INTEGER", "REAL"}
AnalyzedAlone == entry = "analyze" /\ drv = "analyzed"

C13_MixedArithmetic ==
    \A L \in NumericTypes, R \in NumericTypes, operator \in {"+", "-", "*"} :
        (AnalyzedAlone /\ program = ArithmeticProgram(L, operator, R)) =>
            /\ analysis.errors = <<>>
            /\ analysis.ty = IF L = "REAL" \/ R = "REAL" THEN "REAL" ELSE "INTEGER"

(***************************************************************************)
(* C14: / always yields REAL and DIV and MOD always yield INTEGER, in the  *)
(* analyzer as in the evaluator.  The type the analyzer gives an accepted  *)
(* quotient is REAL for / and INTEGER for DIV and MOD; it is the type tag  *)
(* of the value the evaluator computes for the quotient; and in a program  *)
(* the analyzer accepts, an INTEGER variable never holds a value tagged    *)
(* otherwise (i := 7 / 2 is rejected).                                     *)
(***************************************************************************)
Quotients == {"/", "DIV", "MOD"}
StaticType(L, operator, R) == analyze(ArithmeticProgram(L, operator, R)).ty
Accepted(ast) == analyze(ast).errors = <<>>
Finished == entry = "interpret" /\ pc = "done"
HeldBy(name) == syms[lookup(scopes, 1, name)].runtime_value

C14_DivisionTypes ==
    \A L \in NumericTypes, R \in NumericTypes, operator \in Quotients :
        /\ (AnalyzedAlone /\ program = ArithmeticProgram(L, operator, R)
               /\ analysis.errors = <<>>) =>
              analysis.ty = IF operator = "/" THEN "REAL" ELSE "INTEGER"
        /\ \A target \in {"i", "r"} :
              (Finished /\ program = QuotientProgram(target, L, operator, R)
                  /\ Accepted(program)) =>
                 /\ HeldBy(target).type = StaticType(L, operator, R)
                 /\ target = "i" => HeldBy(target).type = "INTEGER"

(***************************************************************************)
(* C15: the analyzer types an element access a[i] with the element type T  *)
(* of the declaration a: ARRAY n OF T.  Assigning a[0] to a variable of    *)
(* type T and using it as an operand of type T are accepted, the operation *)
(* having the type T; assigning to a[0] a value whose type is not          *)
(* compatible with T is reported.                                          *)
(***************************************************************************)
C15_ElementType ==
    \A T \in Types :
        /\ (AnalyzedAlone /\ program = ElementReadProgram(T, T)) => analysis.errors = <<>>
        /\ (AnalyzedAlone /\ program = ElementOperandProgram(T)) =>
              (analysis.errors = <<>> /\ analysis.ty = T)
        /\ \A U \in Types :
              (AnalyzedAlone /\ program = ElementWriteProgram(T, U)
                  /\ ~is_type_compatible(T, U)) =>
                 analysis.errors # <<>>

(***************************************************************************)
(* C16: the analyzer registers all top-level procedures and declarations   *)
(* before it analyses any body.  A module in which the procedure P calls a *)
(* procedure Q, or refers to a global g, is accepted whether Q or g is     *)
(* declared before P or after it.                                          *)
(***************************************************************************)
C16_ForwardReferences ==
    \A order \in {"forward", "backward"}, kind \in {"call", "global"} :
        (AnalyzedAlone /\ program = ReferenceProgram(order, kind)) => analysis.errors = <<>>

(***************************************************************************)
(* C17: the analyzer accepts a FOR statement only if its loop variable is  *)
(* defined and of type INTEGER and both bounds are of type INTEGER: a loop *)
(* variable that is REAL, STRING, an array or undefined, or a bound that   *)
(* is not INTEGER, is reported, and a loop with all three INTEGER is       *)
(* accepted.                                                               *)
(***************************************************************************)
C17_ForTypes ==
    \A V \in LoopVariables, S \in Types, E \in Types :
        (AnalyzedAlone /\ program = ForTypeProgram(V, S, E)) =>
            (analysis.errors = <<>> <=> (V = "INTEGER" /\ S = "INTEGER" /\ E = "INTEGER"))

(***************************************************************************)
(* C18: constants are never the target of an assignment.  Whenever some    *)
(* assignment of the analysed program, to a plain name or to an array      *)
(* element, has a target that resolves to a symbol declared with CONST,    *)
(* analyze returns a diagnostic, so that a program analysed without        *)
(* diagnostics assigns to no constant; when that assignment is the first   *)
(* fault of the program the diagnostic names the constant, and an          *)
(* assignment to a variable or to a parameter that hides the constant is   *)
(* not reported.                                                           *)
(***************************************************************************)
\* the names that the assignments of a statement assign to
RECURSIVE Targets(_)
Targets(statement) ==
    CASE statement.node = "Assignment" -> {statement.variable.name}
      [] statement.node = "IfStatement" ->
           Targets(statement.then_statement)
           \cup (IF statement.else_statement = <<>> THEN {}
                 ELSE Targets(statement.else_statement[1]))
      [] statement.node \in {"WhileStatement", "ForStatement"} -> Targets(statement.statement)
      [] statement.node = "CompoundStatement" ->
           UNION {Targets(statement.statements[j]) : j \in 1 .. Len(statement.statements)}
      [] OTHER -> {}
TargetsOf(statements) == UNION {Targets(statements[j]) : j \in 1 .. Len(statements)}
ConstantNames(ast) ==
    {ast.declarations[j].name :
        j \in {h \in 1 .. Len(ast.declarations) : ast.declarations[h].node = "ConstDeclaration"}}
ParameterNames(declaration) ==
    {declaration.parameters[j].name : j \in 1 .. Len(declaration.parameters)}
AssignsConstant(ast) ==
    \/ TargetsOf(ast.statements) \cap ConstantNames(ast) # {}
    \/ \E j \in 1 .. Len(ast.declarations) :
          /\ ast.declarations[j].node = "ProcedureDeclaration"
          /\ (TargetsOf(ast.declarations[j].statements) \cap ConstantNames(ast))
                \ ParameterNames(ast.declarations[j]) # {}
ConstantDiagnostic(target) ==
    "Semantic error: Cannot assign to constant "
    \o (IF target = "element" THEN "array " ELSE "") \o "'c'"

DefinedOnce(scope) ==
    \A j, h \in 1 .. Len(scope.symbols) :
        scope.symbols[j].name = scope.symbols[h].name => j = h
\* the type of the symbol that lookup of x gives from the scope sc of the analyzer
TypeFrom(sc) == analysis.syms[lookup(analysis.scopes, sc, "x")].type
DeclaringScope(kind) == IF kind \in {"variables", "constant"} THEN 1 ELSE 2

C19_ScopesDefineOnce ==
    /\ \A sc \in 1 .. Len(analysis.scopes) : DefinedOnce(analysis.scopes[sc])
    /\ \A kind \in DuplicateKinds :
          (AnalyzedAlone /\ program = DuplicateProgram(kind)) =>
             /\ analysis.errors = <<"Semantic error: Symbol 'x' already defined in this scope">>
             /\ InScope(analysis.scopes[DeclaringScope(kind)], "x")
             /\ TypeFrom(DeclaringScope(kind)) = "INTEGER"
    /\ (AnalyzedAlone /\ program = ShadowProgram) =>
          /\ analysis.errors = <<>>
          /\ TypeFrom(2) = "REAL"
          /\ TypeFrom(1) = "INTEGER"

(***************************************************************************)
(* C20: the lexer fails at the first unclassifiable character, at a string *)
(* literal with no closing quote and at a comment that is not closed, the  *)
(* error carrying a line and a column (and the character, when it is an    *)
(* unclassifiable one); it never returns tokens for such a source, and for *)
(* every other source it returns tokens that end with exactly one EOF.     *)
(* What is wrong with a source is read off the source itself: Fault scans  *)
(* it from the left, over whole strings and whole comments.                *)
(***************************************************************************)
\* the least index from j on where the string, or the comment, is closed; 0 if none
ClosingQuote(source, j) ==
    IF \E k \in j .. Len(source) : source[k] = "\""
    THEN CHOOSE k \in j .. Len(source) :
            source[k] = "\"" /\ \A h \in j .. k - 1 : source[h] # "\""
    ELSE 0
IsCommentEnd(source, k) == k < Len(source) /\ source[k] = "*" /\ source[k + 1] = ")"
CommentEnd(source, j) ==
    IF \E k \in j .. Len(source) : IsCommentEnd(source, k)
    THEN CHOOSE k \in j .. Len(source) :
            IsCommentEnd(source, k) /\ \A h \in j .. k - 1 : ~IsCommentEnd(source, h)
    ELSE 0
Classifiable == Letters \cup Digits \cup Spaces \cup {"_", "\"", ":", "<", ">", "#", "+", "-",
                  "*", "/", "=", ";", ",", "(", ")", "[", "]", "."}

RECURSIVE Fault(_, _)
Fault(source, j) ==
    IF j > Len(source) THEN [kind |-> "none", index |-> 0]
    ELSE IF source[j] = "\""
    THEN IF ClosingQuote(source, j + 1) = 0 THEN [kind |-> "string", index |-> j]
         ELSE Fault(source, ClosingQuote(source, j + 1) + 1)
    ELSE IF j < Len(source) /\ source[j] = "(" /\ source[j + 1] = "*"
    THEN IF CommentEnd(source, j + 2) = 0 THEN [kind |-> "comment", index |-> j]
         ELSE Fault(source, CommentEnd(source, j + 2) + 2)
    ELSE IF source[j] \notin Classifiable THEN [kind |-> "character", index |-> j]
    ELSE Fault(source, j + 1)

\* the text that follows the kind of an error: the lexer's line and column
Position(lx) == " at line " \o StrInt(lx.line) \o ", column " \o StrInt(lx.column)
EOFs(tokens) == Cardinality({j \in 1 .. Len(tokens) : tokens[j].type = "EOF"})
LexerEnded == entry = "tokenize" /\ (lexer.at = "returned" \/ Raised(lexer))

C20_LexerErrors ==
    LexerEnded =>
        /\ Fault(lexer.source, 1).kind = "none" =>
              /\ lexer.at = "returned"
              /\ ~Raised(lexer)
              /\ lexer.tokens # <<>>
              /\ Last(lexer.tokens).type = "EOF"
              /\ EOFs(lexer.tokens) = 1
        /\ Fault(lexer.source, 1).kind # "none" =>
              /\ lexer.at # "returned"
              /\ lexer.exc.class = "SyntaxError"
        /\ Fault(lexer.source, 1).kind = "character" =>
              lexer.exc.msg = "Unexpected character '"
                              \o lexer.source[Fault(lexer.source, 1).index] \o "'"
                              \o Position(lexer)
        /\ Fault(lexer.source, 1).kind = "string" =>
              lexer.exc.msg = "Unterminated string" \o Position(lexer)


(***************************************************************************)
(* C12: for every program accepted by the analyzer, executing the IR that  *)
(* the IR emitter produces yields the same sequence of output fragments as *)
(* the evaluator produces on the same program, modulo the textual          *)
(* formatting of reals: whenever the analyzer accepts the program and the  *)
(* evaluator has finished it, the IR was emitted, was accepted by the      *)
(* toolchain, ran to the end of @main and printed, fragment by fragment,   *)
(* what the evaluator wrote.                                               *)
(***************************************************************************)
\* a printed value is the fragment text: a real in the format of str(float),
\* an integer also when the evaluator wrote the same number as a real
IsFragment(value, text) ==
    CASE value.k = "int" -> text \in {StrInt(value.n), StrFloat(PyFloat(value.n, 1))}
      [] value.k = "float" -> text = StrFloat(value)
      [] OTHER -> text = value.s
SameFragments ==
    /\ Len(machine.printed) = Len(output)
    /\ \A j \in 1 .. Len(output) : IsFragment(machine.printed[j], output[j])
MachineEnded == machine.at \in {"failed", "rejected", "trapped", "exited"}
C12_SameOutput ==
    (entry = "emit" /\ MachineEnded /\ pc = "done" /\ Accepted(program)) =>
       machine.at = "exited" /\ SameFragments

(***************************************************************************)
(* C11: running the compiler twice on the same source within one process   *)
(* (the same Compiler object, any other compilations in between) gives     *)
(* identical message lists and identical artifacts, and no state of an     *)
(* earlier run is there when a stage starts: any two calls of one process  *)
(* on the same source returned the same messages and executable path and   *)
(* wrote the same files, and the evaluator that a call starts is the one   *)
(* Interpreter() constructs.                                               *)
(***************************************************************************)
Calls == runs \o (IF drv = "returned" THEN <<Run>> ELSE <<>>)
C11_Reentrant ==
    entry = "session" =>
       /\ \A j \in 1 .. Len(Calls), k \in 1 .. Len(Calls) :
             Calls[j].source = Calls[k].source => Calls[j] = Calls[k]
       /\ (drv = "interpreting" /\ pc = "idle") =>
             /\ scopes = <<Scope(0)>>
             /\ syms = <<>>
             /\ procedures = <<>>
             /\ output = <<>>

\* the third call is on the source of the first, another source was compiled
\* in between, and both times the evaluator ran the program and wrote
C11_Witness ==
    /\ entry = "session"
    /\ drv = "returned"
    /\ Len(runs) = 2
    /\ runs[1].source = env.source.text
    /\ runs[2].source # env.source.text
    /\ trail = <<"lex", "parse", "analyze", "emit", "write", "interpret">>
    /\ output # <<>>
    /\ Run = runs[1]

(***************************************************************************)
(* C21: the output is an append-only ordered stream.  A Write statement    *)
(* with n >= 1 arguments that completes appends exactly n fragments, the   *)
(* texts of its arguments in argument order; a WriteLn with n arguments    *)
(* that completes appends those n fragments and then one newline, so       *)
(* WriteLn() appends only the newline.  Every step of a run leaves the     *)
(* fragments already appended in place: the output before the step is a    *)
(* prefix of the output after it.  The output list is emptied only where a *)
(* run begins: by the construction of the next Interpreter in a session.   *)
(***************************************************************************)
\* str(value.value) of the argument, evaluated where the statement stands
TextOf(argument) ==
    LET s1 == evaluate_expression(St, argument) IN Str(s1.val.value, s1.lists)
Texts_of(arguments) == [j \in 1 .. Len(arguments) |-> TextOf(arguments[j])]
AtCall(name) == AtStatement /\ Cur.node = "ProcedureCall" /\ Cur.name = name
Completes == pc' = "run" /\ stack' # stack

C21_AppendOnly ==
    /\ [][(AtCall("Write") /\ Completes) =>
             /\ Len(Cur.arguments) >= 1
             /\ output' = output \o Texts_of(Cur.arguments)]_vars
    /\ [][(AtCall("WriteLn") /\ Completes) =>
             output' = output \o Texts_of(Cur.arguments) \o <<"\n">>]_vars
    /\ [][IsPrefix(output, output') \/ (entry = "session" /\ RunInterpreter)]_vars

\* the module of the example has written its string and then the newline
C21_Witness ==
    /\ pc = "done"
    /\ program = HelloProgram
    /\ output = <<"Hello, World!", "\n">>

\* Write and WriteLn with three arguments have completed between two fragments
C21_WitnessThree ==
    /\ pc = "done"
    /\ \E name \in {"Write", "WriteLn"} :
          /\ program = OutputProgram(name, <<Variable("x"), StrLit("s"), RealLit(1, 2)>>)
          /\ output = <<"a", "7", "s", "0.5">>
                      \o (IF name = "WriteLn" THEN <<"\n">> ELSE <<>>) \o <<"z">>

(***************************************************************************)
(* C26: in the evaluator a name used in the body of a procedure resolves   *)
(* as the analyzer resolved it: to the procedure's own parameter or local  *)
(* variable, whose symbol is in the scope made for the call, and otherwise *)
(* to the symbol of the global scope; never to a symbol of a scope made    *)
(* for a calling procedure.  Checked wherever a statement of a procedure   *)
(* body is about to be executed, for the names the statement uses.         *)
(***************************************************************************)
\* the scope in which Scope.lookup finds the name, 0 for None
RECURSIVE FoundIn(_, _, _)
FoundIn(S, sc, name) ==
    IF InScope(S[sc], name) THEN sc
    ELSE IF S[sc].parent # 0 THEN FoundIn(S, S[sc].parent, name)
    ELSE 0

\* the names a statement uses itself: its target and the variables it reads
NamesOf(expression) ==
    IF expression.node \in {"Variable", "ArrayAccess"} THEN {expression.name} ELSE {}
UsedNames(statement) ==
    CASE statement.node = "Assignment" ->
           {statement.variable.name} \cup NamesOf(statement.expression)
      [] statement.node = "ProcedureCall" ->
           UNION {NamesOf(statement.arguments[j]) : j \in 1 .. Len(statement.arguments)}
      [] OTHER -> {}

\* the calls in progress, outermost first, and the procedure being executed
CallFrames == {j \in 1 .. Len(stack) : stack[j].kind = "stmts" /\ stack[j].owner = "procedure"}
InProcedureBody == AtStatement /\ CallFrames # {}
Executing ==
    ProcedureOf(procedures,
                stack[CHOOSE j \in CallFrames : \A h \in CallFrames : h <= j].call.name)
OwnNames ==
    {Executing.parameters[j].name : j \in 1 .. Len(Executing.parameters)}
    \cup {Executing.declarations[j].name :
             j \in {h \in 1 .. Len(Executing.declarations) :
                       Executing.declarations[h].node = "VarDeclaration"}}

C26_LexicalResolution ==
    (InProcedureBody /\ program \in ScopingPrograms) =>
        \A name \in UsedNames(Cur) :
            FoundIn(scopes, current_scope, name) =
                IF name \in OwnNames THEN current_scope ELSE 1

(***************************************************************************)
(* C27: AND and OR do not short-circuit in the evaluator.  For L AND R and *)
(* L OR R both operands are evaluated, L before R, whatever the value of   *)
(* L: when an operand raises, the statement raises the error of the first  *)
(* such operand from the left, also when L alone decides the result; when  *)
(* neither raises the result is 1 or 0, 1 exactly when both operands (AND) *)
(* or one of them (OR) is a true value.                                    *)
(***************************************************************************)
\* the exception that evaluating an operand of LogicalOperands raises, "" for none
ErrorOf(operand) ==
    CASE operand.node = "BinaryExpression" -> "ZeroDivisionError"
      [] operand.node = "Variable" -> "NameError"
      [] OTHER -> ""
\* the truth of a literal: a number other than zero, a string other than ""
IsTrue(operand) ==
    operand \in {IntLit(1), IntLit(2), RealLit(1, 2), StrLit("s")}
Conjunction == program.statements[2].arguments[1]
LogicalResult ==
    IF Conjunction.operator = "AND"
    THEN IsTrue(Conjunction.left) /\ IsTrue(Conjunction.right)
    ELSE IsTrue(Conjunction.left) \/ IsTrue(Conjunction.right)

C27_BothOperands ==
    (program \in LogicalPrograms /\ pc \in {"done", "error"}) =>
        IF ErrorOf(Conjunction.left) # "" \/ ErrorOf(Conjunction.right) # ""
        THEN /\ pc = "error"
             /\ output = <<"a">>
             /\ exc.class = IF ErrorOf(Conjunction.left) # "" THEN ErrorOf(Conjunction.left)
                            ELSE ErrorOf(Conjunction.right)
        ELSE /\ pc = "done"
             /\ output = <<"a", IF LogicalResult THEN "1" ELSE "0">>

\* 0 AND (1 DIV 0) and 1 OR (1 DIV 0) have raised the division by zero of
\* their right operand
C27_Witness ==
    /\ entry = "interpret"
    /\ pc = "error"
    /\ exc.class = "ZeroDivisionError"
    /\ \/ program = LogicalProgram(IntLit(0), "AND", BinaryExpression(IntLit(1), "DIV", IntLit(0)))
       \/ program = LogicalProgram(IntLit(1), "OR", BinaryExpression(IntLit(1), "DIV", IntLit(0)))

\* 2 AND "s" has given 1
C27_WitnessValue ==
    /\ entry = "interpret"
    /\ pc = "done"
    /\ program = LogicalProgram(IntLit(2), "AND", StrLit("s"))
    /\ output = <<"a", "1">>

(***************************************************************************)
(* C28: scope push and pop are balanced in the evaluator.  The scope made  *)
(* for a call is a new one whose parent is the scope that was current at   *)
(* the call; when the call has ended, normally or by a runtime error, the  *)
(* scope that was current before it is current again, so between two       *)
(* statements of the module body, at the end of the run and after an error *)
(* the current scope is the global scope, scope 1, which exists for the    *)
(* whole run and has no parent.                                            *)
(***************************************************************************)
\* the frame of the call being executed
InnermostCall == stack[CHOOSE j \in CallFrames : \A h \in CallFrames : h <= j]

C28_ScopesBalanced ==
    /\ Len(scopes) >= 1 /\ scopes[1].parent = 0
    /\ InProcedureBody =>
          /\ current_scope # InnermostCall.old_scope
          /\ scopes[current_scope].parent = InnermostCall.old_scope
    /\ (AtStatement /\ Top.owner = "program") => current_scope = 1
    /\ pc \in {"done", "error"} => current_scope = 1

(***************************************************************************)
(* C22: in the IR text that emit_program returns every basic block, the    *)
(* lines from a label up to the next label or the closing brace of the     *)
(* function, ends with exactly one terminator, a br or a ret, and holds no *)
(* other terminator: for IF, WHILE and FOR nested in one another, with     *)
(* empty branches, in main and in a procedure.                             *)
(***************************************************************************)
Emitted == machine.at # "idle" /\ ~Raised(emitter)
IsTerminator(line) == line.op \in {"br", "ret"}
\* the line that ends the block of the label at line j
BlockEnd(text, j) ==
    CHOOSE k \in j + 1 .. Len(text) :
       /\ text[k].op \in {"label", "close"}
       /\ \A m \in j + 1 .. k - 1 : text[m].op \notin {"label", "close"}
WellFormedBlock(text, j) ==
    /\ \E k \in j + 1 .. Len(text) : text[k].op \in {"label", "close"}
    /\ BlockEnd(text, j) - 1 > j
    /\ IsTerminator(text[BlockEnd(text, j) - 1])
    /\ \A m \in j + 1 .. BlockEnd(text, j) - 2 : ~IsTerminator(text[m])

C22_BlocksTerminated ==
    Emitted =>
        /\ \A j \in 1 .. Len(emitter.lines) :
              emitter.lines[j].op = "label" => WellFormedBlock(emitter.lines, j)
        /\ \A j \in 1 .. Len(emitter.lines) :
              IsTerminator(emitter.lines[j]) => InFunction(emitter.lines, j)
        /\ \A j \in 1 .. Len(emitter.lines) :
              emitter.lines[j].op = "define" =>
                  j < Len(emitter.lines) /\ emitter.lines[j + 1].op = "label"

\* the text of a WHILE inside an IF with ELSE inside a procedure: seven blocks
\* in P and one in main
C22_Witness ==
    /\ Emitted
    /\ program = ControlProgram(Control("else", Control("while", CompoundStatement(<<>>))), TRUE)
    /\ Cardinality({j \in 1 .. Len(emitter.lines) : emitter.lines[j].op = "label"}) = 8

(***************************************************************************)
(* C23: value names are SSA-fresh within a function.  In each function of  *)
(* the emitted IR every name on the left of = (the temporaries of new_reg, *)
(* the slots named after variables and parameters, the slots allocated on  *)
(* the fly) is defined by exactly one line of the function, and the labels *)
(* minted by new_label are pairwise distinct in the whole text.            *)
(***************************************************************************)
\* the label lines written with a name of new_label: all but entry
MintedLabels(text) == {j \in 1 .. Len(text) : text[j].op = "label" /\ text[j].name # "entry"}

C23_FreshNames ==
    Emitted =>
        /\ \A j \in 1 .. Len(emitter.lines) :
              (emitter.lines[j].op \in Instructions /\ emitter.lines[j].dst # "") =>
                  Definitions(emitter.lines, j, emitter.lines[j].dst) = {j}
        /\ \A j \in MintedLabels(emitter.lines), k \in MintedLabels(emitter.lines) :
              emitter.lines[j].name = emitter.lines[k].name => j = k

(***************************************************************************)
(* C30: in the IR emitter the slot table and the type table stay in step.  *)
(* Every name that has a slot in current_locals (a top-level variable, a   *)
(* parameter or local of a procedure, a slot allocated on the fly by an    *)
(* assignment or a FOR) has an entry in current_local_types, so that the   *)
(* emission of a read never fails for a missing type.  Observed where      *)
(* emit_program has returned and where it was left by an exception, with   *)
(* the tables as they were when the exception was raised.                  *)
(***************************************************************************)
Keys(dict) == {dict[j].key : j \in 1 .. Len(dict)}

C30_TablesInStep ==
    machine.at # "idle" =>
        /\ Keys(emitter.current_locals) \subseteq Keys(emitter.current_local_types)
        /\ emitter.exc.class # "KeyError"

(***************************************************************************)
(* C25: after compile_and_run() on an idle front end and a compilation     *)
(* without errors, the run_code callback is run by the main thread when    *)
(* is_compiling has been reset, and it starts a run thread: the test of    *)
(* is_compiling in run_code never drops it.  Stated of every step in which *)
(* the event loop takes run_code from its queue.                           *)
(***************************************************************************)
TakesCallback ==
    /\ MainLoop
    /\ Head(gui.events) = "run_code"

StartsRunThread ==
    /\ Len(gui'.workers) = Len(gui.workers) + 1
    /\ Last(gui'.workers).target = "_run_thread"

C25_CallbackRuns ==
    [][TakesCallback => ~gui.is_compiling /\ StartsRunThread]_vars

(***************************************************************************)
(* C24: when a run of _run_thread has ended, neither its temporary source  *)
(* file nor the executable it produced exists any more, however the run    *)
(* ended: normally, with a compilation error, with a status other than 0,  *)
(* with the timeout or with an exception.                                  *)
(***************************************************************************)
Ended(target) ==
    {i \in 1 .. Len(gui.workers) :
        gui.workers[i].target = target /\ gui.workers[i].at = "ended"}

C24_TempFilesRemoved ==
    \A i \in Ended("_run_thread") :
        gui.workers[i].files \cap {"source", "exe"} = {}

(***************************************************************************)
(* C29: in the front end at most one compile or run thread is active at    *)
(* any time, whatever the user clicks and whenever the threads finish:     *)
(* compile_code and run_code start no thread while is_compiling is true,   *)
(* is_compiling is true from the start of a thread until the               *)
(* _compilation_finished it handed over has run, and after every thread,   *)
(* one that raised included, is_compiling becomes false again.             *)
(***************************************************************************)
\* the _compilation_finished callbacks handed over and not run yet
PendingFinished ==
    {k \in 1 .. Len(gui.events) : gui.events[k] = "_compilation_finished"}

\* threads that are active or whose _compilation_finished has not run
Unfinished == Cardinality(Active(gui)) + Cardinality(PendingFinished)

OneWorker ==
    /\ Cardinality(Active(gui)) <= 1
    /\ Unfinished <= 1
    /\ Unfinished = 1 <=> gui.is_compiling

\* a click or a callback starts a thread only when is_compiling was false
GuardedStart ==
    Len(gui'.workers) > Len(gui.workers) => ~gui.is_compiling /\ gui'.is_compiling

====
